---- MODULE Spec2Model ----
(***************************************************************************)
(* Model of the BaiLu CLI agent runtime: the tool executor                 *)
(* (src/tools/executor.ts), the agent loop (src/agent/orchestrator.ts),    *)
(* the command policy and runner (src/runtime/policy.ts, runner.ts) and    *)
(* the path validator (utils/path-validator.ts).                           *)
(***************************************************************************)
EXTENDS Integers, Sequences, FiniteSets, TLC

(***************************************************************************)
(* Bounds of the model.                                                    *)
(***************************************************************************)
MaxIterBound == 3      \* the maxIterations option of the orchestrator
MaxBatch == 2          \* most tool calls in one LLM response
MaxPrompts == 2        \* most approval prompts shown for one call (d re-prompts)
MaxFairIter == 2       \* the maxIterations option in the turns checked for termination
MaxFairBatch == 1      \* most tool calls in one response of those turns
MaxArgs == 1           \* most arguments of a runCommandSafe call
MaxTokenPieces == 1    \* most pieces in the command token of a runCommandSafe call
MaxCmdPieces == 2      \* most pieces in a command string given to isCommandAllowed
MaxListLen == 1        \* longest allow-list or deny-list of a policy
MaxPathLen == 4        \* longest input path given to validatePath
MaxTranscript == 12    \* longest transcript given to autoCompressMessages
MaxApplications == 2   \* most consecutive applications of autoCompressMessages
MaxChunks == 3         \* most chunks one LLM response is streamed in
MaxRequests == 2       \* most sendRequest calls of one McpClient
MaxServers == 2        \* most servers in config.mcpServers
MaxContent == 3        \* most items in the content of a tools/call result
MaxOutput == 2         \* most stdout data events of one child
MaxLines == 2          \* most lines of a file apply_diff is called on
MaxStart == 4          \* largest start line stated in a hunk header
MaxDiffLines == 2      \* most lines of a diff
MaxClock == 4          \* most backups made in the life of a store
MaxCalls == 2          \* most tool calls in one rendered response
MaxRuns == 2           \* most runs of one session
MaxPushes == 1         \* most messages one run adds to its array
MaxHandlers == 2       \* most handlers given to onExit
MaxClients == 1        \* most connected MCP clients
MaxPreviewPath == 3    \* longest path parameter of the previewed write_file call
MaxMessages == 2       \* most messages an MCP server writes
MaxBodyLen == 2        \* most characters in the body of a message
MaxResponses == 2      \* most JSON-RPC responses one McpClient handles

VARIABLES
  \* ---- ToolExecutor (one execute() call at a time) ----
  safetyMode,          \* context.safetyMode
  epc,                 \* position inside execute(): idle/approval/handler/returned
  call,                \* the toolCall being executed
  result,              \* the ToolResult execute() resolved with
  prompts,             \* approval prompts shown for this call
  lastAnswer,          \* normalized answer to the latest prompt of this call
  handlerInvoked,      \* times tool.handler was invoked for this call
  \* ---- AgentOrchestrator.run ----
  opc,                 \* position inside run(): init/llm/batch/done/exited
  maxIterations,
  iterations,
  toolCallsExecuted,
  finalResponse,
  consecutiveFailures,
  lastFailedTool,
  hasFailure,
  batchWrites,         \* the current toolCalls contain a write_file/apply_diff call
  pending,             \* calls of the batch not yet executed
  toolResults,
  messages,
  ret,                 \* the OrchestratorResult run() resolved with
  \* ---- history of the turn ----
  failRun,             \* current run of failed calls of one tool: [tool, n]
  tripped,             \* three consecutive same-tool failures have occurred
  stopCause,           \* which exit of the loop was taken
  llmCalls,            \* LLM requests made in this turn
  llmResponses,        \* LLM responses received in this turn
  batchesRun,          \* batches of tool calls executed to their last call
  writeSucceeded,      \* a write_file/apply_diff call of the current batch succeeded
  testConfigured,      \* .bailu.yml declared a testCommand when the batch ended
  testRan,             \* runAutoTest ran the testCommand when the batch ended
  \* ---- runCommandSafe (one call) ----
  command,
  args,
  policy,
  platform,            \* process.platform
  rpc,                 \* idle / rejected / spawned
  allowed,             \* what isCommandAllowed(policy, full) returned
  rejection,           \* which check rejected the call
  spawned,             \* child processes spawned
  useShell,            \* the shell option given to spawn
  \* ---- validatePath (one call) ----
  inputPath,
  workspaceRoot,
  vpc,                 \* idle / done
  validation,          \* the value validatePath returned
  \* ---- autoCompressMessages (applied to one transcript) ----
  transcript,          \* the messages array
  effectiveMax,        \* the context window of the model
  currentTokens,       \* what estimateTokens returned at the latest application
  previous,            \* the messages array before the latest application
  isCompressed,        \* the messages array was written by autoCompressMessages
  cpc,                 \* applications so far
  \* ---- streamResponse (one call) ----
  chunks,              \* chunks chatStream has still to yield
  streamText,          \* the whole model output, the concatenation of all chunks
  silent,
  fullResponse,
  insideAction,
  outputtedLength,
  displayed,           \* the characters written to the panel, in order
  displayedAt,         \* their positions in the model output
  spc,                 \* idle / streaming / returned / interrupted
  \* ---- McpClient (one client) ----
  mcpProcess,          \* this.process is not null
  requestId,
  pendingRequests,     \* id -> the request whose resolve/reject it holds
  timers,              \* requests whose 30-second timer is armed
  requests,            \* the promises sendRequest returned, in call order
  lastMsg,             \* the response handleResponse was last called with
  handled,             \* handleResponse calls so far
  \* ---- McpClient stdout framing ----
  buffer,              \* this.buffer
  wire,                \* what the server wrote and no data event delivered yet
  replied,             \* id -> the framing the server answered that id in
  \* ---- McpManager.initialize ----
  servers,             \* the launcher commands of config.mcpServers, in order
  isTTY,               \* process.stdin.isTTY
  mgrPc,               \* position inside initialize()
  mgrIndex,            \* the server the for loop is at
  mgrAnswers,          \* server -> what the user typed at its prompt
  mgrSpawned,          \* the connect() calls made, in order
  mgrSkipped,          \* the servers the loop skipped
  \* ---- one call of an MCP tool ----
  mtReply,             \* how the tools/call request settled
  mtPc,                \* calling / returned / reported
  mtResult,            \* the ToolResult the handler returned
  mtText,              \* resultText of the orchestrator
  \* ---- runCommandSafe after the spawn ----
  chState,             \* the child: running / failed (no spawn) / ended / closed
  chOnTerm,            \* what the child does with SIGTERM
  chExit,              \* code and signal the child ended with
  chCause,             \* who ended the child: self / timer / external
  chTermSent,          \* child.kill('SIGTERM') was called
  chStdout,            \* data events of stdout so far
  finished,            \* the local finished
  timeoutId,           \* the timer: armed / fired / cleared
  rcPromise,           \* the returned promise: pending / resolved / rejected
  rcResult,            \* the CommandResult it resolved with
  \* ---- one call of apply_diff ----
  fsFiles,             \* the files "f" and "f.backup": their lines, or Absent
  fsBefore,            \* the files when the handler was called
  adDiff,              \* params.diff, trimmed
  adCreateBackup,      \* params.create_backup !== false
  adPc,                \* call / done
  adResult,            \* the ToolResult returned
  adPatched,           \* the value of applyUnifiedDiff, when it returned one
  \* ---- one call of write_file ----
  wfContent,           \* params.content, as lines
  wfCreateDirs,        \* params.create_dirs !== false
  wfPc,                \* call / done
  wfResult,            \* the ToolResult returned
  \* ---- the backup store of ErrorRecoveryManager ----
  backups,             \* this.backups: file -> its backups, oldest first
  currentBackupSize,   \* this.currentBackupSize
  bkClock,             \* the timestamp of the newest backup made
  bkLast,              \* the last operation and what it evicted
  \* ---- one round trip through the tool-call parser ----
  prCalls,             \* the tool calls the model means
  prText,              \* their tag form, the assistant response
  prParsed,            \* toolCalls of parseToolCalls
  prPc,                \* calls / rendered / parsed
  \* ---- the runs of one session ----
  injHeap,             \* the message objects: role and content
  injCaller,           \* initialMessages, the array the caller keeps
  injLocal,            \* messages, the array of the run
  injTools,            \* toolDefinitions.length
  injPc,               \* idle / running
  injRuns,             \* runs that returned
  \* ---- the end of the process ----
  cleanupHandlers,     \* the handlers given to onExit
  exRan,               \* the handlers runCleanupAndExit has called
  exClients,           \* connected MCP clients
  exPc,                \* startup / session / prompt / cleanup / exited
  exIndex,             \* position of the loop of runCleanupAndExit
  exAnswer,            \* the last answer at the approval prompt
  exInvoked,           \* a handler of a tool was invoked after the last prompt
  \* ---- one write_file call in review mode ----
  pvPc,                \* request / prompt / handler / done / exited
  pvReads,             \* the paths given to fs.readFile
  pvWrites,            \* the paths given to fs.writeFile
  pvPrompts,           \* times the prompt was shown again
  \* ---- the stdout of an MCP server as bytes ----
  byWire,              \* bytes written by the server, not yet in a data event
  bySent,              \* the bodies the server has written
  byBuffer,            \* this.buffer
  byHandled            \* the bodies given to handleMessage

execVars == <<safetyMode, epc, call, result, prompts, lastAnswer, handlerInvoked>>
orchVars == <<opc, maxIterations, iterations, toolCallsExecuted, finalResponse,
              consecutiveFailures, lastFailedTool, hasFailure, batchWrites, pending,
              toolResults, messages, ret>>
histVars == <<failRun, tripped, stopCause, llmCalls, llmResponses, batchesRun,
              writeSucceeded, testConfigured, testRan>>
turnVars == <<execVars, orchVars, histVars>>
runVars == <<command, args, policy, platform, rpc, allowed, rejection, spawned, useShell>>
pathVars == <<inputPath, workspaceRoot, vpc, validation>>
compVars == <<transcript, effectiveMax, currentTokens, previous, isCompressed, cpc>>
streamVars == <<chunks, streamText, silent, fullResponse, insideAction, outputtedLength,
                displayed, displayedAt, spc>>
mcpVars == <<mcpProcess, requestId, pendingRequests, timers, requests, lastMsg, handled>>
frameVars == <<buffer, wire, replied>>
mgrVars == <<servers, isTTY, mgrPc, mgrIndex, mgrAnswers, mgrSpawned, mgrSkipped>>
toolVars == <<mtReply, mtPc, mtResult, mtText>>
childVars == <<chState, chOnTerm, chExit, chCause, chTermSent, chStdout, finished,
               timeoutId, rcPromise, rcResult>>
diffVars == <<fsFiles, fsBefore, adDiff, adCreateBackup, adPc, adResult, adPatched,
              wfContent, wfCreateDirs, wfPc, wfResult>>
backupVars == <<backups, currentBackupSize, bkClock, bkLast>>
parseVars == <<prCalls, prText, prParsed, prPc>>
injVars == <<injHeap, injCaller, injLocal, injTools, injPc, injRuns>>
exitVars == <<cleanupHandlers, exRan, exClients, exPc, exIndex, exAnswer, exInvoked>>
previewVars == <<pvPc, pvReads, pvWrites, pvPrompts>>
bytesVars == <<byWire, bySent, byBuffer, byHandled>>
lateVars == <<parseVars, injVars, exitVars, previewVars, bytesVars>>
notParse == <<injVars, exitVars, previewVars, bytesVars>>
notInject == <<parseVars, exitVars, previewVars, bytesVars>>
notExit == <<parseVars, injVars, previewVars, bytesVars>>
notPreview == <<parseVars, injVars, exitVars, bytesVars>>
notBytes == <<parseVars, injVars, exitVars, previewVars>>
oldExt == <<frameVars, mgrVars, toolVars, childVars, diffVars, backupVars>>
extVars == <<oldExt, lateVars>>
notFrame == <<mgrVars, toolVars, childVars, diffVars, backupVars, lateVars>>
notMgr == <<frameVars, toolVars, childVars, diffVars, backupVars, lateVars>>
notTool == <<frameVars, mgrVars, childVars, diffVars, backupVars, lateVars>>
notChild == <<frameVars, mgrVars, toolVars, diffVars, backupVars, lateVars>>
notDiff == <<frameVars, mgrVars, toolVars, childVars, backupVars, lateVars>>
notBackup == <<frameVars, mgrVars, toolVars, childVars, diffVars, lateVars>>
coreVars == <<turnVars, runVars, pathVars, compVars, streamVars>>
vars == <<turnVars, runVars, pathVars, compVars, streamVars, mcpVars, extVars>>

(***************************************************************************)
(* Tool registry: the built-in tool definitions the claims mention.        *)
(***************************************************************************)
SafetyModes == {"dry-run", "review", "auto-apply"}

readFileTool == [name |-> "read_file", safe |-> TRUE, required |-> {"path"}]

writeFileTool == [name |-> "write_file", safe |-> FALSE, required |-> {"path", "content"}]

Registry == [n \in {"read_file", "write_file"} |->
               IF n = "read_file" THEN readFileTool ELSE writeFileTool]

\* Tool calls a response can carry: params is the set of keys present.
ToolCalls ==
  { [tool |-> "read_file", params |-> {"path"}],
    [tool |-> "write_file", params |-> {"path", "content"}],
    [tool |-> "write_file", params |-> {"path"}],
    [tool |-> "no_such_tool", params |-> {"path"}] }

NoCall == [tool |-> "-", params |-> {}]

NoResult == [success |-> FALSE, error |-> "-", output |-> "-"]

Success(out) == [success |-> TRUE, error |-> "", output |-> out]

Failure(err) == [success |-> FALSE, error |-> err, output |-> ""]

\* Variant of validateParams that accepts every parameter map.
validateParams_acceptAll(required, params) == ""

\* ToolExecutor.validateParams: first required parameter absent from params.
validateParams(required, params) ==
  IF required \subseteq params THEN "" ELSE "missing-required-parameter"

\* Raw answers typed at the approval prompt, and answer.trim().toLowerCase().
Answers == {"y", " YES ", "n", "", "d", "q", "ok"}

normalized(answer) ==
  CASE answer = " YES " -> "yes"
    [] OTHER -> answer

HandlerOutcomes == {"ok", "fail", "throw"}

(***************************************************************************)
(* ToolExecutor.execute                                                    *)
(***************************************************************************)
\* Variant of AfterApproval without the dry-run short-circuit.
AfterApproval_noDryRun ==
  /\ epc' = "handler"
  /\ result' = NoResult
  /\ handlerInvoked' = 1

\* execute() from the dry-run check on (executor.ts 49-66): short-circuit in
\* dry-run, otherwise invoke the handler and wait for it.
AfterApproval ==
  IF safetyMode = "dry-run"
  THEN /\ epc' = "returned"
       /\ result' = Success("[DRY-RUN]")
       /\ handlerInvoked' = 0
  ELSE /\ epc' = "handler"
       /\ result' = NoResult
       /\ handlerInvoked' = 1

\* Does execute() ask for approval of this call (executor.ts 39)?
needsApproval(tc) == safetyMode = "review"

\* execute(toolCall) up to its first await.
execute(tc) ==
  /\ call' = tc
  /\ lastAnswer' = "-"
  /\ IF tc.tool \notin DOMAIN Registry
     THEN /\ epc' = "returned"
          /\ result' = Failure("unknown-tool")
          /\ prompts' = 0
          /\ handlerInvoked' = 0
     ELSE IF validateParams(Registry[tc.tool].required, tc.params) # ""
     THEN /\ epc' = "returned"
          /\ result' = Failure(validateParams(Registry[tc.tool].required, tc.params))
          /\ prompts' = 0
          /\ handlerInvoked' = 0
     ELSE IF needsApproval(tc)
     THEN /\ epc' = "approval"
          /\ result' = NoResult
          /\ prompts' = 1
          /\ handlerInvoked' = 0
     ELSE /\ prompts' = 0
          /\ AfterApproval

\* Variant of approves that takes the empty answer as a yes.
approves_emptyIsYes(n) == n = "y" \/ n = "yes" \/ n = ""

\* Is this normalized answer an approval (executor.ts 159)?
approves(n) == n = "y" \/ n = "yes"

\* The rl.question callback of requestApproval: the user answers the prompt.
Answer(a) ==
  /\ epc = "approval"
  /\ lastAnswer' = normalized(a)
  /\ IF normalized(a) = "q" \/ normalized(a) = "quit"
     THEN \* process.exit(0)
          /\ epc' = "exited"
          /\ opc' = "exited"
          /\ UNCHANGED <<result, prompts, handlerInvoked>>
     ELSE IF normalized(a) = "d" \/ normalized(a) = "diff"
     THEN \* showDiffPreview, then requestApproval again
          /\ prompts < MaxPrompts
          /\ prompts' = prompts + 1
          /\ UNCHANGED <<epc, opc, result, handlerInvoked>>
     ELSE IF approves(normalized(a))
     THEN /\ AfterApproval
          /\ UNCHANGED <<opc, prompts>>
     ELSE /\ epc' = "returned"
          /\ result' = Failure("user-cancelled")
          /\ UNCHANGED <<opc, prompts, handlerInvoked>>
  /\ UNCHANGED <<safetyMode, call>>
  /\ UNCHANGED <<maxIterations, iterations, toolCallsExecuted, finalResponse,
                 consecutiveFailures, lastFailedTool, hasFailure, batchWrites, pending,
                 toolResults, messages, ret>>
  /\ UNCHANGED histVars
  /\ UNCHANGED <<runVars, pathVars, compVars, streamVars, mcpVars, extVars>>

\* tool.handler(params) settles: a result, a failure result, or an exception
\* that execute() converts to a failure (executor.ts 66-83).
HandlerReturn(o) ==
  /\ epc = "handler"
  /\ epc' = "returned"
  /\ result' = CASE o = "ok" -> Success("out")
                 [] o = "fail" -> Failure("handler-error")
                 [] OTHER -> Failure("handler-exception")
  /\ UNCHANGED <<safetyMode, call, prompts, lastAnswer, handlerInvoked>>
  /\ UNCHANGED orchVars
  /\ UNCHANGED histVars
  /\ UNCHANGED <<runVars, pathVars, compVars, streamVars, mcpVars, extVars>>

(***************************************************************************)
(* AgentOrchestrator.run                                                   *)
(***************************************************************************)
BatchSeqs == UNION {[1..n -> ToolCalls] : n \in 0..MaxBatch}

\* parseToolCalls(assistantResponse): the parsed forms of the LLM response of
\* iteration i.  Its text is the text i, so that the texts of different
\* iterations differ.
Responses(i) == [toolCalls : BatchSeqs, textContent : {i}]

\* A ChatMessage: its role and its content, a text identified by its kind and
\* a number.
Msg(role, kind, n) == [role |-> role, content |-> <<kind, n>>]

InitialMessages == <<Msg("system", "prompt", 0), Msg("user", "request", 0)>>

NoRet == [success |-> FALSE, finalResponse |-> 0, error |-> "-", errorTools |-> {}]

\* Variant of sliceLast that keeps one message more.
sliceLast_oneMore(msgs, k) ==
  IF Len(msgs) <= k + 1 THEN msgs ELSE SubSeq(msgs, Len(msgs) - k, Len(msgs))

\* messages.slice(-k)
sliceLast(msgs, k) ==
  IF Len(msgs) <= k THEN msgs ELSE SubSeq(msgs, Len(msgs) - k + 1, Len(msgs))

\* Variant of autoCompressMessages without the test of the transcript length.
autoCompressMessages_noLengthTest(msgs, over) ==
  IF over
  THEN LET recentMessages == sliceLast(msgs, 6)
           compressedCount == Len(msgs) - Len(recentMessages) - 1
       IN <<msgs[1], Msg("system", "compressed", compressedCount)>> \o recentMessages
  ELSE msgs

\* autoCompressMessages (orchestrator.ts 147-170); over = currentTokens > threshold.
autoCompressMessages(msgs, over) ==
  IF over /\ Len(msgs) > 10
  THEN LET recentMessages == sliceLast(msgs, 6)
           compressedCount == Len(msgs) - Len(recentMessages) - 1
       IN <<msgs[1], Msg("system", "compressed", compressedCount)>> \o recentMessages
  ELSE msgs

\* currentTokens > threshold, the threshold being 80% of effectiveMax
\* (orchestrator.ts 150-152).
exceedsThreshold(tokens, window) == tokens * 10 > window * 8

\* One application of autoCompressMessages to the messages array, the token
\* estimate of its contents being tokens.
AutoCompress(tokens) ==
  /\ cpc < MaxApplications
  /\ cpc' = cpc + 1
  /\ currentTokens' = tokens
  /\ previous' = transcript
  /\ transcript' = autoCompressMessages(transcript, exceedsThreshold(tokens, effectiveMax))
  /\ isCompressed' = (isCompressed \/ (exceedsThreshold(tokens, effectiveMax)
                                         /\ Len(transcript) > 10))
  /\ UNCHANGED effectiveMax
  /\ UNCHANGED <<turnVars, runVars, pathVars, streamVars, mcpVars, extVars>>

\* The code after the while loop (orchestrator.ts 395-420): the value run() returns.
returnValue(iters, final) ==
  IF iters >= maxIterations
  THEN [success |-> FALSE, finalResponse |-> final,
        error |-> "max-iterations", errorTools |-> {}]
  ELSE [success |-> TRUE, finalResponse |-> final,
        error |-> "", errorTools |-> {}]

\* Leave the loop (break, or the while condition failing) and return.
Exit(iters, final, cause) ==
  /\ opc' = "done"
  /\ iterations' = iters
  /\ ret' = returnValue(iters, final)
  /\ stopCause' = cause

\* Variant of LoopTop whose loop test admits one iteration more.
LoopTop_oneMore(iters, final, msgs, over) ==
  IF iters <= maxIterations
  THEN /\ opc' = "llm"
       /\ iterations' = iters + 1
       /\ messages' = autoCompressMessages(msgs, over)
       /\ ret' = NoRet
       /\ stopCause' = stopCause
       /\ llmCalls' = llmCalls + 1
  ELSE /\ Exit(iters, final, "loop-condition")
       /\ messages' = msgs
       /\ llmCalls' = llmCalls

\* Top of the while loop (orchestrator.ts 208-243): test, count, compress, ask the LLM.
LoopTop(iters, final, msgs, over) ==
  IF iters < maxIterations
  THEN /\ opc' = "llm"
       /\ iterations' = iters + 1
       /\ messages' = autoCompressMessages(msgs, over)
       /\ ret' = NoRet
       /\ stopCause' = stopCause
       /\ llmCalls' = llmCalls + 1
  ELSE /\ Exit(iters, final, "loop-condition")
       /\ messages' = msgs
       /\ llmCalls' = llmCalls

\* run(initialMessages) is called.
Run ==
  /\ opc = "init"
  /\ \E over \in BOOLEAN : LoopTop(0, 0, InitialMessages, over)
  /\ UNCHANGED <<toolCallsExecuted, finalResponse, consecutiveFailures,
                 lastFailedTool, hasFailure, batchWrites, pending, toolResults,
                 maxIterations>>
  /\ UNCHANGED execVars
  /\ UNCHANGED <<failRun, tripped, llmResponses, batchesRun, writeSucceeded,
                 testConfigured, testRan>>
  /\ UNCHANGED <<runVars, pathVars, compVars, streamVars, mcpVars, extVars>>

\* toolCalls.some(tc => tc.tool is write_file or apply_diff) (orchestrator.ts 357-358).
writesFile(tcs) ==
  \E i \in 1..Len(tcs) : tcs[i].tool = "write_file" \/ tcs[i].tool = "apply_diff"

\* Does the batch count as having modified a file (orchestrator.ts 357-359)?
hasFileModification(writes, failed) == writes /\ ~failed

\* The LLM request resolves with a response (orchestrator.ts 257-287).
LLMRespond(r) ==
  /\ opc = "llm"
  /\ finalResponse' = r.textContent
  /\ llmResponses' = llmResponses + 1
  /\ writeSucceeded' = FALSE
  /\ testConfigured' = FALSE
  /\ testRan' = FALSE
  /\ IF Len(r.toolCalls) = 0
     THEN /\ Exit(iterations, r.textContent, "no-tool-calls")
          /\ toolResults' = <<>>
          /\ UNCHANGED <<messages, batchWrites, pending, hasFailure>>
     ELSE /\ opc' = "batch"
          /\ messages' = Append(messages, Msg("assistant", "response", iterations))
          /\ batchWrites' = writesFile(r.toolCalls)
          /\ pending' = r.toolCalls
          /\ toolResults' = <<>>
          /\ hasFailure' = FALSE
          /\ UNCHANGED <<iterations, ret, stopCause>>
  /\ UNCHANGED <<maxIterations, toolCallsExecuted, consecutiveFailures, lastFailedTool>>
  /\ UNCHANGED execVars
  /\ UNCHANGED <<failRun, tripped, llmCalls, batchesRun>>
  /\ UNCHANGED <<runVars, pathVars, compVars, streamVars, mcpVars, extVars>>

\* The LLM request rejects: the catch block of run() (orchestrator.ts 421-431).
LLMThrow ==
  /\ opc = "llm"
  /\ opc' = "done"
  /\ ret' = [success |-> FALSE, finalResponse |-> finalResponse,
             error |-> "llm-error", errorTools |-> {}]
  /\ stopCause' = "exception"
  /\ UNCHANGED <<maxIterations, iterations, toolCallsExecuted, finalResponse,
                 consecutiveFailures, lastFailedTool, hasFailure, batchWrites, pending,
                 toolResults, messages>>
  /\ UNCHANGED execVars
  /\ UNCHANGED <<failRun, tripped, llmCalls, llmResponses, batchesRun, writeSucceeded,
                 testConfigured, testRan>>
  /\ UNCHANGED <<runVars, pathVars, compVars, streamVars, mcpVars, extVars>>

\* The for loop reaches its next toolCall and calls execute (orchestrator.ts 289-295).
ExecStart ==
  /\ opc = "batch"
  /\ epc = "idle"
  /\ pending # <<>>
  /\ execute(Head(pending))
  /\ UNCHANGED safetyMode
  /\ UNCHANGED orchVars
  /\ UNCHANGED histVars
  /\ UNCHANGED <<runVars, pathVars, compVars, streamVars, mcpVars, extVars>>

\* The run of consecutive failed calls of one tool, after one more outcome.
extendRun(run, tool, ok) ==
  IF ok THEN [tool |-> "", n |-> 0]
  ELSE IF run.tool = tool THEN [tool |-> tool, n |-> run.n + 1]
  ELSE [tool |-> tool, n |-> 1]

\* Variant of remaining that abandons the batch after a failed call.
remaining_abortOnFailure(pend, ok) == IF ok THEN Tail(pend) ELSE <<>>

\* The calls the for loop still has to execute after one result: the loop
\* body has no break and no return (orchestrator.ts 289-354).
remaining(pend, ok) == Tail(pend)

\* The stop test after a batch (orchestrator.ts 368).
shouldStop(cf) == cf >= 3

\* Failure counters after one result (orchestrator.ts 329-348).
nextFailures(cf, lft, tool, ok) ==
  IF ok THEN 0
  ELSE IF lft = tool THEN cf + 1 ELSE 1

nextFailedTool(lft, tool, ok) ==
  IF ok THEN "" ELSE tool

\* execute() has resolved: the rest of the for-loop body (orchestrator.ts
\* 296-353) and, after the last call of the batch, the code that follows the
\* for loop (356-392) up to the next LLM request or the return.  The locals
\* of an iteration (toolCalls, toolResults, hasFailure) and of execute() go
\* out of scope when the next iteration begins.
ToolReturn(test, over) ==
  /\ opc = "batch"
  /\ epc = "returned"
  /\ epc' = "idle"
  /\ call' = NoCall
  /\ result' = NoResult
  /\ prompts' = 0
  /\ lastAnswer' = "-"
  /\ handlerInvoked' = 0
  /\ UNCHANGED safetyMode
  /\ toolCallsExecuted' = toolCallsExecuted + 1
  /\ consecutiveFailures' =
       nextFailures(consecutiveFailures, lastFailedTool, call.tool, result.success)
  /\ lastFailedTool' = nextFailedTool(lastFailedTool, call.tool, result.success)
  /\ pending' = remaining(pending, result.success)
  /\ llmResponses' = llmResponses
  /\ batchesRun' = IF pending' = <<>> THEN batchesRun + 1 ELSE batchesRun
  /\ writeSucceeded' = (writeSucceeded \/ (writesFile(<<call>>) /\ result.success))
  /\ testConfigured' = (pending' = <<>> /\ test # "null")
  /\ testRan' = (pending' = <<>> /\ test # "null"
                   /\ hasFileModification(batchWrites, hasFailure \/ ~result.success))
  /\ failRun' = extendRun(failRun, call.tool, result.success)
  /\ tripped' = (tripped \/ failRun'.n >= 3)
  /\ UNCHANGED <<maxIterations, finalResponse>>
  /\ UNCHANGED <<runVars, pathVars, compVars, streamVars, mcpVars, extVars>>
  /\ LET failed == hasFailure \/ ~result.success
         results == Append(toolResults, "tool")
         withTest == IF hasFileModification(batchWrites, failed) /\ test # "null"
                     THEN Append(results, "auto-test")
                     ELSE results
     IN IF pending' # <<>>
        THEN /\ toolResults' = results
             /\ hasFailure' = failed
             /\ UNCHANGED <<opc, iterations, messages, ret, stopCause, llmCalls, batchWrites>>
        ELSE IF shouldStop(consecutiveFailures')
        THEN /\ Exit(iterations, finalResponse, "consecutive-failures")
             /\ toolResults' = withTest
             /\ hasFailure' = failed
             /\ UNCHANGED <<messages, llmCalls, batchWrites>>
        ELSE IF safetyMode = "dry-run" /\ iterations = 1
        THEN /\ Exit(iterations, finalResponse, "dry-run")
             /\ messages' = Append(messages, Msg("user", "tool-results", iterations))
             /\ toolResults' = withTest
             /\ hasFailure' = failed
             /\ UNCHANGED <<llmCalls, batchWrites>>
        ELSE /\ LoopTop(iterations, finalResponse,
                        Append(messages, Msg("user", "tool-results", iterations)), over)
             /\ toolResults' = withTest
             /\ hasFailure' = FALSE
             /\ batchWrites' = FALSE

(***************************************************************************)
(* AgentOrchestrator.streamResponse.  Texts are sequences of one-character *)
(* strings; positions are counted from 0 as in the code.                   *)
(***************************************************************************)
OpenTag == <<"<", "a", "c", "t", "i", "o", "n", ">">>

CloseTag == <<"<", "/", "a", "c", "t", "i", "o", "n", ">">>

\* s.indexOf(p, from): the first position at or after from where p occurs, or -1.
indexOfFrom(s, p, from) ==
  LET hits == {i \in from..(Len(s) - Len(p)) : SubSeq(s, i + 1, i + Len(p)) = p}
  IN IF hits = {} THEN -1 ELSE CHOOSE i \in hits : \A j \in hits : i <= j

indexOf(s, p) == indexOfFrom(s, p, 0)

\* s.substring(a, b) for 0 <= a <= b <= s.length
substring(s, a, b) == SubSeq(s, a + 1, b)

\* One round of the for-await loop (orchestrator.ts 465-489): the next chunk
\* arrives, is captured and, outside an action block, written to the panel.
StreamChunk ==
  /\ spc = "streaming"
  /\ chunks # <<>>
  /\ LET chunk == Head(chunks)
         full == fullResponse \o chunk
         actionStartIdx == indexOf(full, OpenTag)
         textToOutput == substring(full, outputtedLength, actionStartIdx)
     IN /\ chunks' = Tail(chunks)
        /\ fullResponse' = full
        /\ IF insideAction
           THEN UNCHANGED <<insideAction, outputtedLength, displayed, displayedAt>>
           ELSE IF actionStartIdx # -1
           THEN /\ insideAction' = TRUE
                /\ IF actionStartIdx > outputtedLength /\ ~silent
                   THEN /\ displayed' = displayed \o textToOutput
                        /\ displayedAt' = displayedAt \o
                             [i \in 1..Len(textToOutput) |-> outputtedLength + i - 1]
                        /\ outputtedLength' = actionStartIdx
                   ELSE UNCHANGED <<outputtedLength, displayed, displayedAt>>
           ELSE IF ~silent
           THEN /\ displayed' = displayed \o chunk
                /\ displayedAt' = displayedAt \o
                     [i \in 1..Len(chunk) |-> Len(fullResponse) + i - 1]
                /\ outputtedLength' = Len(full)
                /\ UNCHANGED insideAction
           ELSE UNCHANGED <<insideAction, outputtedLength, displayed, displayedAt>>
  /\ UNCHANGED <<streamText, silent, spc>>
  /\ UNCHANGED <<turnVars, runVars, pathVars, compVars, mcpVars, extVars>>

\* chatStream is exhausted: the panel is closed and fullResponse returned
\* (orchestrator.ts 491-508).
StreamEnd ==
  /\ spc = "streaming"
  /\ chunks = <<>>
  /\ spc' = "returned"
  /\ UNCHANGED <<chunks, streamText, silent, fullResponse, insideAction, outputtedLength,
                 displayed, displayedAt>>
  /\ UNCHANGED <<turnVars, runVars, pathVars, compVars, mcpVars, extVars>>

\* chatStream throws before its next chunk: the catch block closes the panel
\* and what was captured so far is returned (orchestrator.ts 496-508).
StreamThrow ==
  /\ spc = "streaming"
  /\ chunks # <<>>
  /\ spc' = "interrupted"
  /\ UNCHANGED <<chunks, streamText, silent, fullResponse, insideAction, outputtedLength,
                 displayed, displayedAt>>
  /\ UNCHANGED <<turnVars, runVars, pathVars, compVars, mcpVars, extVars>>

(***************************************************************************)
(* mcp/client.ts: the request/response correlation of one McpClient.       *)
(***************************************************************************)
Methods == {"tools/list", "tools/call"}

\* Variant of nextRequestId that does not advance the counter once started.
nextRequestId_noIncrement(rid) == IF rid = 0 THEN 1 ELSE rid

\* ++this.requestId (client.ts 222)
nextRequestId(rid) == rid + 1

\* The promise of one sendRequest call: id is 0 when no request was written.
Promise(id, method, state, by, value, settles) ==
  [id |-> id, method |-> method, state |-> state, by |-> by, value |-> value,
   settles |-> settles]

\* resolve(value) or reject(reason) called on a promise: only the first call
\* settles it.
settle(p, state, by, value) ==
  IF p.state = "pending"
  THEN [p EXCEPT !.state = state, !.by = by, !.value = value, !.settles = @ + 1]
  ELSE [p EXCEPT !.settles = @ + 1]

\* pendingRequests.delete(id)
mapDelete(map, id) == [i \in DOMAIN map \ {id} |-> map[i]]

\* pendingRequests.set(id, entry)
mapSet(map, id, entry) == [i \in DOMAIN map \cup {id} |-> IF i = id THEN entry ELSE map[i]]

\* sendRequest(method) (client.ts 214-240), the process being proc.
sendRequest(method, proc) ==
  LET k == Len(requests) + 1
      id == nextRequestId(requestId)
  IN IF ~proc
     THEN /\ requests' = Append(requests,
                 Promise(0, method, "rejected", "not-connected", "error", 1))
          /\ UNCHANGED <<requestId, pendingRequests, timers>>
     ELSE /\ requestId' = id
          /\ pendingRequests' = mapSet(pendingRequests, id, k)
          /\ timers' = timers \cup {k}
          /\ requests' = Append(requests, Promise(id, method, "pending", "-", "-", 0))

\* A caller (listTools, callTool) sends a request.
SendRequest(method) ==
  /\ Len(requests) < MaxRequests
  /\ sendRequest(method, mcpProcess)
  /\ UNCHANGED <<mcpProcess, lastMsg, handled>>
  /\ UNCHANGED <<turnVars, runVars, pathVars, compVars, streamVars, extVars>>

\* connect() (client.ts 62-105): spawn the server and send initialize.
Connect ==
  /\ ~mcpProcess
  /\ Len(requests) < MaxRequests
  /\ mcpProcess' = TRUE
  /\ sendRequest("initialize", TRUE)
  /\ UNCHANGED <<lastMsg, handled>>
  /\ UNCHANGED <<turnVars, runVars, pathVars, compVars, streamVars, extVars>>

\* Variant of HandleResponse that leaves the timer of the request armed.
HandleResponse_keepTimer(msg) ==
  /\ handled < MaxResponses
  /\ handled' = handled + 1
  /\ lastMsg' = msg
  /\ IF msg.id \in DOMAIN pendingRequests
     THEN LET k == pendingRequests[msg.id]
          IN /\ pendingRequests' = mapDelete(pendingRequests, msg.id)
             /\ timers' = timers
             /\ requests' = [requests EXCEPT ![k] =
                   settle(@, IF msg.error THEN "rejected" ELSE "resolved",
                          "response", msg.payload)]
     ELSE UNCHANGED <<pendingRequests, timers, requests>>
  /\ UNCHANGED <<mcpProcess, requestId>>
  /\ UNCHANGED <<turnVars, runVars, pathVars, compVars, streamVars, extVars>>

\* handleResponse(msg) (client.ts 298-309)
HandleResponse(msg) ==
  /\ handled < MaxResponses
  /\ handled' = handled + 1
  /\ lastMsg' = msg
  /\ IF msg.id \in DOMAIN pendingRequests
     THEN LET k == pendingRequests[msg.id]
          IN /\ pendingRequests' = mapDelete(pendingRequests, msg.id)
             /\ timers' = timers \ {k}
             /\ requests' = [requests EXCEPT ![k] =
                   settle(@, IF msg.error THEN "rejected" ELSE "resolved",
                          "response", msg.payload)]
     ELSE UNCHANGED <<pendingRequests, timers, requests>>
  /\ UNCHANGED <<mcpProcess, requestId>>
  /\ UNCHANGED <<turnVars, runVars, pathVars, compVars, streamVars, extVars>>

\* The 30-second timer of request k fires (client.ts 228-231).
Timeout(k) ==
  /\ k \in timers
  /\ timers' = timers \ {k}
  /\ pendingRequests' = mapDelete(pendingRequests, requests[k].id)
  /\ requests' = [requests EXCEPT ![k] = settle(@, "rejected", "timeout", "error")]
  /\ UNCHANGED <<mcpProcess, requestId, lastMsg, handled>>
  /\ UNCHANGED <<turnVars, runVars, pathVars, compVars, streamVars, extVars>>

\* cleanup() (client.ts 311-318), called by the close event of the child and
\* by disconnect(): every pending entry is rejected and the table cleared.
Close ==
  /\ mcpProcess
  /\ LET closing == {pendingRequests[i] : i \in DOMAIN pendingRequests}
     IN /\ requests' = [k \in DOMAIN requests |->
                          IF k \in closing
                          THEN settle(requests[k], "rejected", "close", "error")
                          ELSE requests[k]]
        /\ timers' = timers \ closing
  /\ pendingRequests' = <<>>
  /\ mcpProcess' = FALSE
  /\ UNCHANGED <<requestId, lastMsg, handled>>
  /\ UNCHANGED <<turnVars, runVars, pathVars, compVars, streamVars, extVars>>

(***************************************************************************)
(* Strings of the command policy and the path validator are sequences of   *)
(* one-character strings.                                                  *)
(***************************************************************************)
StringsOver(alphabet, n) == UNION {[1..k -> alphabet] : k \in 0..n}

RECURSIVE concat(_)
concat(pieces) == IF pieces = <<>> THEN <<>> ELSE Head(pieces) \o concat(Tail(pieces))

\* The strings made of up to n pieces.
StringsOfPieces(pieces, n) == {concat(ps) : ps \in StringsOver(pieces, n)}

\* String.prototype.startsWith
startsWith(s, p) == Len(p) <= Len(s) /\ SubSeq(s, 1, Len(p)) = p

\* String.prototype.includes / an unanchored literal pattern
includes(s, p) ==
  \E i \in 1..(Len(s) - Len(p) + 1) : SubSeq(s, i, i + Len(p) - 1) = p

\* The characters the regular-expression class \s and trim() treat as space.
Whitespace == {" ", "\t", "\n", "\r"}

RECURSIVE trimStart(_)
trimStart(s) ==
  IF s # <<>> /\ Head(s) \in Whitespace THEN trimStart(Tail(s)) ELSE s

RECURSIVE trimEnd(_)
trimEnd(s) ==
  IF s # <<>> /\ s[Len(s)] \in Whitespace
  THEN trimEnd(SubSeq(s, 1, Len(s) - 1))
  ELSE s

\* String.prototype.trim
trim(s) == trimEnd(trimStart(s))

\* s.split(/\s+/): the pieces between maximal runs of whitespace; cur is the
\* piece being collected.
RECURSIVE splitWhitespace(_, _)
splitWhitespace(s, cur) ==
  IF s = <<>> THEN <<cur>>
  ELSE IF Head(s) \in Whitespace
       THEN <<cur>> \o splitWhitespace(trimStart(s), <<>>)
       ELSE splitWhitespace(Tail(s), Append(cur, Head(s)))

\* s.split(sep) for a one-character separator.
RECURSIVE splitOn(_, _, _)
splitOn(s, sep, cur) ==
  IF s = <<>> THEN <<cur>>
  ELSE IF Head(s) = sep
       THEN <<cur>> \o splitOn(Tail(s), sep, <<>>)
       ELSE splitOn(Tail(s), sep, Append(cur, Head(s)))

UpperCase == <<"A", "B", "C", "D", "E", "F", "G", "H", "I", "J", "K", "L", "M", "N", "O", "P", "Q", "R", "S", "T", "U", "V", "W", "X", "Y", "Z">>

LowerCase == <<"a", "b", "c", "d", "e", "f", "g", "h", "i", "j", "k", "l", "m", "n", "o", "p", "q", "r", "s", "t", "u", "v", "w", "x", "y", "z">>

toLowerChar(c) ==
  IF \E i \in 1..26 : UpperCase[i] = c
  THEN LowerCase[CHOOSE i \in 1..26 : UpperCase[i] = c]
  ELSE c

\* String.prototype.toLowerCase
toLowerCase(s) == [i \in 1..Len(s) |-> toLowerChar(s[i])]

\* s.replace(/\\/g, '/')
replaceBackslashes(s) == [i \in 1..Len(s) |-> IF s[i] = "\\" THEN "/" ELSE s[i]]

(***************************************************************************)
(* runtime/policy.ts                                                       *)
(***************************************************************************)
\* blockedCommands of getDefaultPolicy(); it sets no allowedCommands.
DefaultBlockedCommands ==
  << <<"r", "m">>,
     <<"r", "m", " ", "-", "r", "f">>,
     <<"r", "m", "d", "i", "r">>,
     <<"d", "e", "l">>,
     <<"f", "o", "r", "m", "a", "t">>,
     <<"m", "k", "f", "s">>,
     <<"d", "d">>,
     <<"s", "h", "u", "t", "d", "o", "w", "n">>,
     <<"r", "e", "b", "o", "o", "t">>,
     <<"p", "o", "w", "e", "r", "o", "f", "f">>,
     <<"h", "a", "l", "t">>,
     <<"i", "n", "i", "t">>,
     <<"a", "p", "t", "-", "g", "e", "t">>,
     <<"y", "u", "m">>,
     <<"d", "n", "f">>,
     <<"p", "a", "c", "m", "a", "n">>,
     <<"b", "r", "e", "w">>,
     <<"c", "h", "o", "c", "o">>,
     <<"c", "h", "m", "o", "d">>,
     <<"c", "h", "o", "w", "n">>,
     <<"c", "h", "g", "r", "p">>,
     <<"p", "a", "s", "s", "w", "d">>,
     <<"s", "u", "d", "o">>,
     <<"s", "u">>,
     <<"c", "u", "r", "l">>,
     <<"w", "g", "e", "t">>,
     <<"n", "c">>,
     <<"n", "e", "t", "c", "a", "t">>,
     <<"t", "e", "l", "n", "e", "t">>,
     <<"f", "d", "i", "s", "k">>,
     <<"p", "a", "r", "t", "e", "d">>,
     <<"m", "o", "u", "n", "t">>,
     <<"u", "m", "o", "u", "n", "t">>,
     <<"k", "i", "l", "l">>,
     <<"k", "i", "l", "l", "a", "l", "l">>,
     <<"p", "k", "i", "l", "l">> >>

getDefaultPolicy == [blockedCommands |-> DefaultBlockedCommands, allowedCommands |-> <<>>]

\* The backtick character (the lexer of TLA+ has no literal for it).
Backtick == "BACKTICK"

\* SHELL_INJECTION_PATTERNS, without the ${ pattern.
SHELL_INJECTION_PATTERNS_noBrace ==
  { <<";">>, <<Backtick>>, <<"$", "(">>, <<"|", "|">>, <<"&", "&">>, <<"\n">>, <<"\r">> }

\* SHELL_INJECTION_PATTERNS: the class of ; and backtick, and the literals
\* $( ${ || && \n \r
SHELL_INJECTION_PATTERNS ==
  { <<";">>, <<Backtick>>, <<"$", "(">>, <<"$", "{">>, <<"|", "|">>, <<"&", "&">>,
    <<"\n">>, <<"\r">> }

containsShellInjection(value) ==
  \E pattern \in SHELL_INJECTION_PATTERNS : includes(value, pattern)

\* DANGEROUS_SHELL_OPERATORS (policy.ts 74-86)
DANGEROUS_SHELL_OPERATORS ==
  { <<";">>, <<"&", "&">>, <<"|", "|">>, <<"|">>, <<Backtick>>, <<"$", "(">>, <<">">>,
    <<"<">>, <<">", ">">>, <<"2", ">">>, <<"&">> }

\* containsDangerousOperators: command.includes(op) for some operator.
containsDangerousOperators(value) ==
  \E op \in DANGEROUS_SHELL_OPERATORS : includes(value, op)

\* The alternatives of the extension pattern /\.(exe|bat|cmd|sh|ps1)$/i
Extensions ==
  { <<"e", "x", "e">>, <<"b", "a", "t">>, <<"c", "m", "d">>, <<"s", "h">>,
    <<"p", "s", "1">> }

\* baseName.replace(/\.(exe|bat|cmd|sh|ps1)$/i, '')
stripExtension(b) ==
  IF \E e \in Extensions :
       /\ Len(b) >= Len(e) + 1
       /\ b[Len(b) - Len(e)] = "."
       /\ toLowerCase(SubSeq(b, Len(b) - Len(e) + 1, Len(b))) = e
  THEN LET e == CHOOSE e \in Extensions :
                  /\ Len(b) >= Len(e) + 1
                  /\ b[Len(b) - Len(e)] = "."
                  /\ toLowerCase(SubSeq(b, Len(b) - Len(e) + 1, Len(b))) = e
       IN SubSeq(b, 1, Len(b) - Len(e) - 1)
  ELSE b

extractCommandName(cmd) ==
  LET trimmed == trim(cmd)
      firstPart == splitWhitespace(trimmed, <<>>)[1]
      parts == splitOn(replaceBackslashes(firstPart), "/", <<>>)
      baseName == parts[Len(parts)]
  IN toLowerCase(stripExtension(baseName))

\* The loop over policy.blockedCommands; TRUE when some entry refuses the command.
RECURSIVE blockedBy(_, _)
blockedBy(blockedCommands, cmd) ==
  IF blockedCommands = <<>> THEN FALSE
  ELSE LET banned == Head(blockedCommands)
       IN IF extractCommandName(cmd) = extractCommandName(banned) THEN TRUE
          ELSE IF cmd = banned \/ startsWith(cmd, banned \o <<" ">>) THEN TRUE
          ELSE blockedBy(Tail(blockedCommands), cmd)

\* Variant of isCommandAllowed that consults the allow-list first.
isCommandAllowed_allowFirst(pol, cmd) ==
  IF Len(pol.allowedCommands) > 0
  THEN \E i \in 1..Len(pol.allowedCommands) :
         LET entry == pol.allowedCommands[i]
         IN \/ extractCommandName(cmd) = extractCommandName(entry)
            \/ cmd = entry
            \/ startsWith(cmd, entry \o <<" ">>)
  ELSE ~blockedBy(pol.blockedCommands, cmd)

isCommandAllowed(pol, cmd) ==
  IF blockedBy(pol.blockedCommands, cmd) THEN FALSE
  ELSE IF Len(pol.allowedCommands) > 0
  THEN \E i \in 1..Len(pol.allowedCommands) :
         LET entry == pol.allowedCommands[i]
         IN \/ extractCommandName(cmd) = extractCommandName(entry)
            \/ cmd = entry
            \/ startsWith(cmd, entry \o <<" ">>)
  ELSE TRUE

(***************************************************************************)
(* runtime/runner.ts                                                       *)
(***************************************************************************)
\* args.join(" ")
RECURSIVE join(_, _)
join(list, sep) ==
  IF list = <<>> THEN <<>>
  ELSE IF Len(list) = 1 THEN list[1]
  ELSE list[1] \o sep \o join(Tail(list), sep)

\* runCommandSafe up to the spawn (runner.ts 19-53).
runCommandSafe ==
  /\ rpc = "idle"
  /\ LET full == IF Len(args) > 0 THEN command \o <<" ">> \o join(args, <<" ">>)
                 ELSE command
         permitted == isCommandAllowed(policy, full)
     IN /\ allowed' = permitted
        /\ IF ~permitted
           THEN /\ rpc' = "rejected"
                /\ rejection' = "policy"
                /\ UNCHANGED <<spawned, useShell>>
           ELSE IF containsShellInjection(command)
           THEN /\ rpc' = "rejected"
                /\ rejection' = "command"
                /\ UNCHANGED <<spawned, useShell>>
           ELSE IF \E i \in 1..Len(args) : containsShellInjection(args[i])
           THEN /\ rpc' = "rejected"
                /\ rejection' = "argument"
                /\ UNCHANGED <<spawned, useShell>>
           ELSE /\ rpc' = "spawned"
                /\ rejection' = "-"
                /\ spawned' = spawned + 1
                /\ useShell' = (platform = "win32")
  /\ UNCHANGED <<command, args, policy, platform>>
  /\ UNCHANGED <<turnVars, pathVars, compVars, streamVars, mcpVars, extVars>>

(***************************************************************************)
(* utils/path-validator.ts, with the POSIX functions of the path module.   *)
(***************************************************************************)
\* The NUL character.
Nul == "NUL"

\* path.isAbsolute
isAbsolute(p) == p # <<>> /\ p[1] = "/"

\* normalizeString of the path module: drop empty and "." segments, let ".."
\* remove the segment before it.
RECURSIVE normalizeSegments(_, _, _)
normalizeSegments(segs, acc, allowAboveRoot) ==
  IF segs = <<>> THEN acc
  ELSE LET seg == Head(segs)
       IN IF seg = <<>> \/ seg = <<".">>
          THEN normalizeSegments(Tail(segs), acc, allowAboveRoot)
          ELSE IF seg = <<".", ".">>
          THEN IF acc # <<>> /\ acc[Len(acc)] # <<".", ".">>
               THEN normalizeSegments(Tail(segs), SubSeq(acc, 1, Len(acc) - 1), allowAboveRoot)
               ELSE IF allowAboveRoot
               THEN normalizeSegments(Tail(segs), Append(acc, seg), allowAboveRoot)
               ELSE normalizeSegments(Tail(segs), acc, allowAboveRoot)
          ELSE normalizeSegments(Tail(segs), Append(acc, seg), allowAboveRoot)

normalizeString(p, allowAboveRoot) ==
  join(normalizeSegments(splitOn(p, "/", <<>>), <<>>, allowAboveRoot), <<"/">>)

\* path.normalize
normalize(p) ==
  IF p = <<>> THEN <<".">>
  ELSE LET trailing == p[Len(p)] = "/"
           body == normalizeString(p, ~isAbsolute(p))
       IN IF body = <<>>
          THEN IF isAbsolute(p) THEN <<"/">>
               ELSE IF trailing THEN <<".", "/">> ELSE <<".">>
          ELSE (IF isAbsolute(p) THEN <<"/">> ELSE <<>>) \o body
               \o (IF trailing THEN <<"/">> ELSE <<>>)

\* path.resolve(root, p) for an absolute root.
resolve(root, p) ==
  LET joined == IF isAbsolute(p) THEN p
                ELSE IF p = <<>> THEN root
                ELSE root \o <<"/">> \o p
  IN <<"/">> \o normalizeString(joined, FALSE)

\* path.join(a, b)
pathJoin(a, b) == normalize(a \o <<"/">> \o b)

\* process.env.HOME of the modelled environment; APPDATA and LOCALAPPDATA are unset.
homeDir == <<"/", "h", "o", "m", "e", "/", "u", "s", "e", "r">>

sensitiveDirectories ==
  { <<"/", "e", "t", "c">>,
    <<"/", "s", "y", "s">>,
    <<"/", "p", "r", "o", "c">>,
    <<"/", "b", "o", "o", "t">>,
    <<"/", "r", "o", "o", "t">>,
    <<"/", "v", "a", "r", "/", "l", "o", "g">>,
    <<"C", ":", "\\", "W", "i", "n", "d", "o", "w", "s", "\\", "S", "y", "s", "t", "e", "m", "3", "2">>,
    <<"C", ":", "\\", "W", "i", "n", "d", "o", "w", "s", "\\", "S", "y", "s", "W", "O", "W", "6", "4">>,
    <<"C", ":", "\\", "W", "i", "n", "d", "o", "w", "s", "\\", "s", "y", "s", "t", "e", "m">>,
    <<"C", ":", "\\", "P", "r", "o", "g", "r", "a", "m", " ", "F", "i", "l", "e", "s">>,
    <<"C", ":", "\\", "P", "r", "o", "g", "r", "a", "m", " ", "F", "i", "l", "e", "s", " ", "(", "x", "8", "6", ")">> }
  \cup { pathJoin(homeDir, d) : d \in
         { <<".", "s", "s", "h">>,
           <<".", "g", "n", "u", "p", "g">>,
           <<".", "a", "w", "s">>,
           <<".", "a", "z", "u", "r", "e">>,
           <<".", "c", "o", "n", "f", "i", "g", "/", "g", "c", "l", "o", "u", "d">>,
           <<".", "k", "u", "b", "e">>,
           <<".", "n", "p", "m", "r", "c">>,
           <<".", "d", "o", "c", "k", "e", "r">> } }

\* The patterns of dangerousPatterns (path-validator.ts 28-32).
hasDangerousPattern(p) ==
  \/ \E i \in 1..Len(p) : p[i] \in {Nul, "<", ">", "\"", "|", "?", "*"}
  \/ includes(p, <<".", ".">>)

\* The workspace test of validatePath (path-validator.ts 50-51).
insideWorkspace(absolutePath, root) == startsWith(absolutePath, normalize(root))

\* validatePath(inputPath, workspaceRoot) on a POSIX platform.
validatePathResult(input, root) ==
  IF input = <<>> \/ trim(input) = <<>>
  THEN [valid |-> FALSE, normalizedPath |-> <<>>, error |-> "empty"]
  ELSE IF hasDangerousPattern(input)
  THEN [valid |-> FALSE, normalizedPath |-> <<>>, error |-> "dangerous-pattern"]
  ELSE LET normalizedPath == normalize(input)
           absolutePath == IF isAbsolute(normalizedPath) THEN normalizedPath
                           ELSE resolve(root, normalizedPath)
       IN IF ~insideWorkspace(absolutePath, root)
          THEN [valid |-> FALSE, normalizedPath |-> <<>>, error |-> "outside-workspace"]
          ELSE IF \E sensitive \in sensitiveDirectories :
                    startsWith(absolutePath, normalize(sensitive))
          THEN [valid |-> FALSE, normalizedPath |-> <<>>, error |-> "sensitive-directory"]
          ELSE [valid |-> TRUE, normalizedPath |-> absolutePath, error |-> ""]

NoValidation == [valid |-> FALSE, normalizedPath |-> <<>>, error |-> "-"]

validatePath ==
  /\ vpc = "idle"
  /\ vpc' = "done"
  /\ validation' = validatePathResult(inputPath, workspaceRoot)
  /\ UNCHANGED <<inputPath, workspaceRoot>>
  /\ UNCHANGED <<turnVars, runVars, compVars, streamVars, mcpVars, extVars>>

(***************************************************************************)
(* mcp/client.ts: what the stdout data handler does with the server's      *)
(* output.  The text is a sequence of units: "\r", "\n", a header line     *)
(* text such as "Content-Length: 2", and the characters of a JSON-RPC      *)
(* response document, two per document.                                    *)
(***************************************************************************)
Framings == {"lsp", "ndjson"}

\* No response.
NoMsg == [id |-> 0, error |-> FALSE, payload |-> "-"]

\* JSON.stringify of the response to the request with the given id.
JsonTexts == <<<<"{1", "1}">>, <<"{2", "2}">>, <<"{3", "3}">>, <<"{4", "4}">>>>

\* What the server writes for one response (spec: Content-Length: N, a blank
\* line and N bytes, or one JSON document per line).
Frame(id, framing) ==
  IF framing = "lsp"
  THEN <<"Content-Length: 2", "\r", "\n", "\r", "\n">> \o JsonTexts[id]
  ELSE JsonTexts[id] \o <<"\n">>

\* header.match(/Content-Length:\s*(\d+)/i) and parseInt(match[1], 10)
\* (client.ts 249, 256): the length stated by the first match, -1 without one.
contentLengthOf(header) ==
  LET hits == {i \in 1..Len(header) : header[i] = "Content-Length: 2"}
  IN IF hits = {} THEN -1 ELSE 2

\* JSON.parse(text): the response a document parses to; text that is not one
\* whole document, surrounded by white space at most, throws.
JSONparse(text) ==
  LET t == trim(text)
      ids == {i \in DOMAIN JsonTexts : JsonTexts[i] = t}
  IN IF ids = {} THEN [ok |-> FALSE, msg |-> NoMsg]
     ELSE [ok |-> TRUE,
           msg |-> [id |-> CHOOSE i \in ids : TRUE, error |-> FALSE, payload |-> "p"]]

\* handleMessage(body) (client.ts 289-296): the calls of handleResponse made.
handleMessage(body) == IF JSONparse(body).ok THEN <<JSONparse(body).msg>> ELSE <<>>

\* The loop of tryParseDirectJson (client.ts 273-284) over the lines.
RECURSIVE directLines(_)
directLines(lines) ==
  IF lines = <<>> THEN [remaining |-> <<>>, msgs |-> <<>>]
  ELSE LET line == Head(lines)
           rest == directLines(Tail(lines))
       IN IF trim(line) = <<>> THEN rest
          ELSE IF JSONparse(trim(line)).ok
               THEN [rest EXCEPT !.msgs = <<JSONparse(trim(line)).msg>> \o @]
               ELSE [rest EXCEPT !.remaining = <<line>> \o @]

\* tryParseDirectJson() (client.ts 268-287)
tryParseDirectJson(buf) ==
  LET r == directLines(splitOn(buf, "\n", <<>>))
  IN [buffer |-> join(r.remaining, <<"\n">>), msgs |-> r.msgs]

\* processBuffer() (client.ts 242-266): the buffer left and the responses
\* handleResponse was called with, in order.
RECURSIVE processBuffer(_)
processBuffer(buf) ==
  LET headerEnd == indexOf(buf, <<"\r", "\n", "\r", "\n">>)
  IN IF headerEnd = -1 THEN [buffer |-> buf, msgs |-> <<>>]
     ELSE LET header == substring(buf, 0, headerEnd)
              contentLength == contentLengthOf(header)
              bodyStart == headerEnd + 4
          IN IF contentLength = -1 THEN tryParseDirectJson(buf)
             ELSE IF Len(buf) < bodyStart + contentLength
                  THEN [buffer |-> buf, msgs |-> <<>>]
                  ELSE LET body == substring(buf, bodyStart, bodyStart + contentLength)
                           next == processBuffer(
                                     substring(buf, bodyStart + contentLength, Len(buf)))
                       IN [next EXCEPT !.msgs = handleMessage(body) \o @]

\* handleResponse(msg) (client.ts 298-309) on the table, timers and promises.
handleResponse(st, msg) ==
  IF msg.id \in DOMAIN st.pendingRequests
  THEN LET k == st.pendingRequests[msg.id]
       IN [pendingRequests |-> mapDelete(st.pendingRequests, msg.id),
           timers |-> st.timers \ {k},
           requests |-> [st.requests EXCEPT ![k] =
                           settle(@, IF msg.error THEN "rejected" ELSE "resolved",
                                  "response", msg.payload)]]
  ELSE st

RECURSIVE handleAll(_, _)
handleAll(st, msgs) ==
  IF msgs = <<>> THEN st ELSE handleAll(handleResponse(st, Head(msgs)), Tail(msgs))

\* The server answers a request it has read, in one of the two framings.
ServerReply(id, framing) ==
  /\ mcpProcess
  /\ id \in 1..requestId
  /\ id \notin DOMAIN replied
  /\ replied' = mapSet(replied, id, framing)
  /\ wire' = wire \o Frame(id, framing)
  /\ UNCHANGED buffer
  /\ UNCHANGED <<coreVars, mcpVars, notFrame>>

\* A data event of the child's stdout carrying the next n units (client.ts
\* 71-74): buffer += data; processBuffer().
OnData(n) ==
  /\ n \in 1..Len(wire)
  /\ wire' = SubSeq(wire, n + 1, Len(wire))
  /\ LET r == processBuffer(buffer \o SubSeq(wire, 1, n))
         st == handleAll([pendingRequests |-> pendingRequests, timers |-> timers,
                          requests |-> requests], r.msgs)
     IN /\ buffer' = r.buffer
        /\ pendingRequests' = st.pendingRequests
        /\ timers' = st.timers
        /\ requests' = st.requests
        /\ handled' = handled + Len(r.msgs)
        /\ lastMsg' = IF r.msgs = <<>> THEN lastMsg ELSE r.msgs[Len(r.msgs)]
  /\ UNCHANGED <<mcpProcess, requestId, replied>>
  /\ UNCHANGED <<coreVars, notFrame>>

(***************************************************************************)
(* mcp/manager.ts: the launcher check of McpManager.initialize.            *)
(***************************************************************************)
\* MCP_COMMAND_ALLOWLIST (manager.ts 129-132)
MCP_COMMAND_ALLOWLIST ==
  { <<"n", "p", "x">>, <<"n", "o", "d", "e">>, <<"p", "y", "t", "h", "o", "n">>,
    <<"p", "y", "t", "h", "o", "n", "3">>, <<"d", "e", "n", "o">>, <<"b", "u", "n">>,
    <<"u", "v", "x">>, <<"u", "v">> }

\* path.basename(p) of the POSIX path module: the part after the last "/",
\* trailing "/" characters not counted.
RECURSIVE basename(_)
basename(p) ==
  IF p = <<>> THEN <<>>
  ELSE IF p[Len(p)] = "/" THEN basename(SubSeq(p, 1, Len(p) - 1))
  ELSE LET slashes == {i \in 1..Len(p) : p[i] = "/"}
       IN IF slashes = {} THEN p
          ELSE SubSeq(p, (CHOOSE i \in slashes : \A j \in slashes : j <= i) + 1, Len(p))

\* The alternatives of /\.(exe|cmd|bat)$/i (manager.ts 142)
LauncherExtensions == { <<"e", "x", "e">>, <<"c", "m", "d">>, <<"b", "a", "t">> }

\* baseName.replace(/\.(exe|cmd|bat)$/i, '')
stripLauncherExtension(b) ==
  IF /\ Len(b) >= 4
     /\ b[Len(b) - 3] = "."
     /\ toLowerCase(SubSeq(b, Len(b) - 2, Len(b))) \in LauncherExtensions
  THEN SubSeq(b, 1, Len(b) - 4)
  ELSE b

\* isCommandSafe(command) (manager.ts 141-144)
isCommandSafe(cmd) ==
  toLowerCase(stripLauncherExtension(basename(cmd))) \in MCP_COMMAND_ALLOWLIST

\* Variant of confirms that takes the empty answer for a yes.
confirms_emptyIsYes(answer) ==
  toLowerCase(trim(answer)) \in {<<"y">>, <<>>}

\* answer.trim().toLowerCase() === 'y' (manager.ts 163)
confirms(answer) == toLowerCase(trim(answer)) = <<"y">>

\* The rest of the for loop after server i: the next server or the return.
nextServer(i) ==
  /\ mgrIndex' = i + 1
  /\ mgrPc' = IF i + 1 > Len(servers) THEN "done" ELSE "check"

\* initialize() up to the loop (manager.ts 171-181).
Initialize ==
  /\ mgrPc = "idle"
  /\ mgrIndex' = 1
  /\ mgrPc' = IF servers = <<>> THEN "done" ELSE "check"
  /\ UNCHANGED <<servers, isTTY, mgrAnswers, mgrSpawned, mgrSkipped>>
  /\ UNCHANGED <<coreVars, mcpVars, notMgr>>

\* The launcher check of one server (manager.ts 184-190) up to the prompt:
\* confirmUnsafeCommand returns false at once when stdin is no terminal.
CheckServer ==
  /\ mgrPc = "check"
  /\ IF isCommandSafe(servers[mgrIndex])
     THEN /\ mgrPc' = "connect"
          /\ UNCHANGED <<mgrIndex, mgrSkipped>>
     ELSE IF ~isTTY
          THEN /\ mgrSkipped' = mgrSkipped \cup {mgrIndex}
               /\ nextServer(mgrIndex)
          ELSE /\ mgrPc' = "prompt"
               /\ UNCHANGED <<mgrIndex, mgrSkipped>>
  /\ UNCHANGED <<servers, isTTY, mgrAnswers, mgrSpawned>>
  /\ UNCHANGED <<coreVars, mcpVars, notMgr>>

\* The user answers the question of confirmUnsafeCommand (manager.ts 159-165,
\* 186-189).
AnswerPrompt(answer) ==
  /\ mgrPc = "prompt"
  /\ mgrAnswers' = mapSet(mgrAnswers, mgrIndex, answer)
  /\ IF confirms(answer)
     THEN /\ mgrPc' = "connect"
          /\ UNCHANGED <<mgrIndex, mgrSkipped>>
     ELSE /\ mgrSkipped' = mgrSkipped \cup {mgrIndex}
          /\ nextServer(mgrIndex)
  /\ UNCHANGED <<servers, isTTY, mgrSpawned>>
  /\ UNCHANGED <<coreVars, mcpVars, notMgr>>

\* new McpClient(name, serverConfig); await client.connect() and the tool
\* discovery (manager.ts 192-210): the child is spawned; whether the rest
\* succeeds or throws, the catch keeps the loop going.
ConnectServer(ok) ==
  /\ mgrPc = "connect"
  /\ mgrSpawned' = Append(mgrSpawned, [server |-> mgrIndex, connected |-> ok])
  /\ nextServer(mgrIndex)
  /\ UNCHANGED <<servers, isTTY, mgrAnswers, mgrSkipped>>
  /\ UNCHANGED <<coreVars, mcpVars, notMgr>>

(***************************************************************************)
(* mcp/client.ts: the handler discoverTools gives an MCP tool, and what    *)
(* the orchestrator makes of its result.                                   *)
(***************************************************************************)
\* A field that is absent from an object.
Undefined == "undefined"

ContentItems == {[type |-> "text", text |-> "a"], [type |-> "text", text |-> ""],
                 [type |-> "image", text |-> Undefined]}

\* content.filter(c => c.type === "text").map(c => c.text).join("\n"): the
\* texts are "a" or empty, so the joined text is empty when no "a" is there.
textContent(content) ==
  LET texts == SelectSeq(content, LAMBDA c : c.type = "text")
  IN IF \E i \in DOMAIN texts : texts[i].text = "a" THEN "texts"
     ELSE IF Len(texts) > 1 THEN "newlines"
     ELSE ""

\* The handler of an MCP tool (client.ts 159-179); reply is how callTool
\* settled: rejected, or resolved with a result with or without content.
mcpToolHandler(reply) ==
  IF reply.rejected
  THEN [success |-> FALSE, output |-> Undefined, error |-> "MCP tool call failed"]
  ELSE IF reply.hasContent
       THEN [success |-> ~reply.isError,
             output |-> IF textContent(reply.content) # ""
                        THEN textContent(reply.content)
                        ELSE "JSON.stringify(content)",
             error |-> Undefined]
       ELSE [success |-> TRUE, output |-> "JSON.stringify(result)", error |-> Undefined]

\* resultText of the orchestrator (orchestrator.ts 298-300): the template
\* literal prints an absent error as the word undefined.
resultTextOf(res) ==
  IF res.success
  THEN IF res.output \in {"", Undefined} THEN <<"(no output)">> ELSE <<res.output>>
  ELSE <<"error: ", res.error>>

\* The model calls the tool: the handler awaits callTool and returns.
McpToolCall ==
  /\ mtPc = "calling"
  /\ mtPc' = "returned"
  /\ mtResult' = mcpToolHandler(mtReply)
  /\ UNCHANGED <<mtReply, mtText>>
  /\ UNCHANGED <<coreVars, mcpVars, notTool>>

\* The orchestrator turns the result into the text it reports to the model.
McpToolReport ==
  /\ mtPc = "returned"
  /\ mtPc' = "reported"
  /\ mtText' = resultTextOf(mtResult)
  /\ UNCHANGED <<mtReply, mtResult>>
  /\ UNCHANGED <<coreVars, mcpVars, notTool>>

(***************************************************************************)
(* runtime/runner.ts: the promise of runCommandSafe after the spawn.       *)
(***************************************************************************)
Signals == {"SIGTERM", "SIGKILL", "SIGINT"}

\* What a child does with SIGTERM: the default action, a handler that exits
\* with a code, or nothing.
TermHandling == {"die", "exit", "ignore"}

\* No CommandResult.
NoCommandResult == [exitCode |-> -1, signal |-> "-", timedOut |-> FALSE, stdout |-> 0]

\* The child ends: code and signal are what the close event will carry.
childEnds(code, signal, cause) ==
  /\ chState' = "ended"
  /\ chExit' = [code |-> code, signal |-> signal]
  /\ chCause' = cause

\* A data event of the child's stdout (runner.ts 62-68).
StdoutData ==
  /\ chState = "running"
  /\ chStdout < MaxOutput
  /\ chStdout' = chStdout + 1
  /\ UNCHANGED <<chState, chOnTerm, chExit, chCause, chTermSent, finished, timeoutId,
                 rcPromise, rcResult>>
  /\ UNCHANGED <<coreVars, mcpVars, notChild>>

\* The child exits by itself with a code; after a SIGTERM it handles, the
\* exit is its answer to the signal.
ChildExits(code) ==
  /\ chState = "running"
  /\ childEnds(code, "none", IF chTermSent /\ chOnTerm = "exit" THEN "timer" ELSE "self")
  /\ UNCHANGED <<chOnTerm, chTermSent, chStdout, finished, timeoutId, rcPromise, rcResult>>
  /\ UNCHANGED <<coreVars, mcpVars, notChild>>

\* Somebody other than the runner ends the child with a signal.
ExternalSignal(signal) ==
  /\ chState = "running"
  /\ childEnds(-1, signal, "external")
  /\ UNCHANGED <<chOnTerm, chTermSent, chStdout, finished, timeoutId, rcPromise, rcResult>>
  /\ UNCHANGED <<coreVars, mcpVars, notChild>>

\* The timer callback (runner.ts 56-60): child.kill('SIGTERM') unless
\* finished.
TimerFires ==
  /\ timeoutId = "armed"
  /\ timeoutId' = "fired"
  /\ IF ~finished /\ chState = "running"
     THEN /\ chTermSent' = TRUE
          /\ IF chOnTerm = "die"
             THEN childEnds(-1, "SIGTERM", "timer")
             ELSE UNCHANGED <<chState, chExit, chCause>>
     ELSE UNCHANGED <<chTermSent, chState, chExit, chCause>>
  /\ UNCHANGED <<chOnTerm, chStdout, finished, rcPromise, rcResult>>
  /\ UNCHANGED <<coreVars, mcpVars, notChild>>

\* signal === 'SIGTERM' || signal === 'SIGKILL' (runner.ts 87)
timedOutOf(signal) == signal \in {"SIGTERM", "SIGKILL"}

\* The close handler (runner.ts 78-93).
OnClose ==
  /\ chState = "ended"
  /\ chState' = "closed"
  /\ IF finished
     THEN UNCHANGED <<finished, timeoutId, rcPromise, rcResult>>
     ELSE /\ finished' = TRUE
          /\ timeoutId' = IF timeoutId = "armed" THEN "cleared" ELSE timeoutId
          /\ rcPromise' = "resolved"
          /\ rcResult' = [exitCode |-> chExit.code, signal |-> chExit.signal,
                          timedOut |-> timedOutOf(chExit.signal),
                          stdout |-> chStdout]
  /\ UNCHANGED <<chOnTerm, chExit, chCause, chTermSent, chStdout>>
  /\ UNCHANGED <<coreVars, mcpVars, notChild>>

\* The error handler (runner.ts 95-100): the child could not be spawned.
OnError ==
  /\ chState = "failed"
  /\ chState' = "closed"
  /\ IF finished
     THEN UNCHANGED <<finished, timeoutId, rcPromise>>
     ELSE /\ finished' = TRUE
          /\ timeoutId' = IF timeoutId = "armed" THEN "cleared" ELSE timeoutId
          /\ rcPromise' = "rejected"
  /\ UNCHANGED <<chOnTerm, chExit, chCause, chTermSent, chStdout, rcResult>>
  /\ UNCHANGED <<coreVars, mcpVars, notChild>>

(***************************************************************************)
(* tools/implementations/apply_diff.ts.  A file content is the sequence of *)
(* its lines (content.split("\n"), never empty); a diff is the sequence of  *)
(* its lines, each one of the kinds the code tells apart.                  *)
(***************************************************************************)
\* A file that does not exist.
Absent == <<"ENOENT">>

\* The empty string, split into lines.
EmptyContent == <<"">>

\* "@@ -n,0 +n,0 @@": a header the pattern of line 241 matches.
Hunk(n) == [kind |-> "@@", n |-> n, text |-> "", matches |-> TRUE]

\* A line that starts with "@@" and does not match the pattern.
BadHunk == [kind |-> "@@", n |-> 0, text |-> "", matches |-> FALSE]

DiffLine(kind, text) == [kind |-> kind, n |-> 0, text |-> text, matches |-> FALSE]

\* diff.includes('@@')
includesHunkMarker(diff) == \E i \in DOMAIN diff : diff[i].kind = "@@"

\* diffContent.startsWith('---')
startsWithDashes(diff) == diff # <<>> /\ diff[1].kind = "---"

\* diffContent.includes('--- /dev/null') || includes('--- a/dev/null')
includesDevNull(diff) ==
  \E i \in DOMAIN diff : diff[i].kind = "---" /\ diff[i].text = "/dev/null"

\* originalLines[i] for a 0-based i: undefined outside the array.
lineAt(originalLines, i) ==
  IF i + 1 \in DOMAIN originalLines THEN originalLines[i + 1] ELSE Undefined

\* The for loop of applyUnifiedDiff (apply_diff.ts 238-276) and the loop
\* after it (279-282).
RECURSIVE applyDiffLines(_, _, _, _, _)
applyDiffLines(originalLines, diffLines, res, originalIndex, inHunk) ==
  IF diffLines = <<>>
  THEN res \o [i \in 1..(Len(originalLines) - originalIndex) |->
                 originalLines[originalIndex + i]]
  ELSE LET line == Head(diffLines)
           rest == Tail(diffLines)
       IN IF line.kind = "@@"
          THEN IF line.matches
               THEN LET hunkOriginalStart == line.n - 1
                        copied == [i \in 1..(hunkOriginalStart - originalIndex) |->
                                     lineAt(originalLines, originalIndex + i - 1)]
                    IN applyDiffLines(originalLines, rest, res \o copied,
                         IF originalIndex < hunkOriginalStart
                         THEN hunkOriginalStart ELSE originalIndex, TRUE)
               ELSE applyDiffLines(originalLines, rest, res, originalIndex, inHunk)
          ELSE IF ~inHunk \/ line.kind \in {"---", "+++", "\\"}
               THEN applyDiffLines(originalLines, rest, res, originalIndex, inHunk)
          ELSE IF line.kind = "+"
               THEN applyDiffLines(originalLines, rest, Append(res, line.text),
                                   originalIndex, inHunk)
          ELSE IF line.kind = "-"
               THEN applyDiffLines(originalLines, rest, res, originalIndex + 1, inHunk)
          ELSE applyDiffLines(originalLines, rest, Append(res, line.text),
                              originalIndex + 1, inHunk)

\* result.join("\n"), split into lines again: join writes an undefined
\* element as the empty string.
joinLines(res) == [i \in DOMAIN res |-> IF res[i] = Undefined THEN "" ELSE res[i]]

\* applyUnifiedDiff(original, diff) (apply_diff.ts 225-285) for a diff that
\* includes "@@"; without one it throws.
applyUnifiedDiff(original, diff) ==
  joinLines(applyDiffLines(original, diff, <<>>, 0, FALSE))

\* createBackup && fileExists && original (apply_diff.ts 115)
needsBackup(createBackup, fileExists, original) ==
  createBackup /\ fileExists /\ original # EmptyContent

\* The handler of apply_diff (apply_diff.ts 37-217) on the file "f".  pathOk
\* is the verdict of validatePath; readErr, backupErr and writeErr say which
\* of readFile, the write of the backup and the write of the file fail.
ApplyDiff(pathOk, readErr, backupErr, writeErr) ==
  /\ adPc = "call"
  /\ adPc' = "done"
  /\ LET fileExists == fsFiles["f"] # Absent
         original == IF fileExists THEN fsFiles["f"] ELSE EmptyContent
         backup == needsBackup(adCreateBackup, fileExists, original)
         withBackup == IF backup THEN [fsFiles EXCEPT !["f.backup"] = original]
                       ELSE fsFiles
         patched == applyUnifiedDiff(original, adDiff)
     IN IF adDiff = <<>>
        THEN adResult' = Failure("invalid diff") /\ UNCHANGED <<fsFiles, adPatched>>
        ELSE IF ~includesHunkMarker(adDiff) /\ ~startsWithDashes(adDiff)
        THEN adResult' = Failure("invalid format") /\ UNCHANGED <<fsFiles, adPatched>>
        ELSE IF ~pathOk
        THEN adResult' = Failure("path validation") /\ UNCHANGED <<fsFiles, adPatched>>
        ELSE IF fileExists /\ readErr
        THEN adResult' = Failure("read failed") /\ UNCHANGED <<fsFiles, adPatched>>
        ELSE IF ~fileExists /\ ~includesDevNull(adDiff)
        THEN adResult' = Failure("file does not exist") /\ UNCHANGED <<fsFiles, adPatched>>
        ELSE IF backup /\ backupErr
        THEN adResult' = Failure("backup failed") /\ UNCHANGED <<fsFiles, adPatched>>
        ELSE IF ~includesHunkMarker(adDiff)
        THEN /\ adResult' = Failure("missing hunk markers")
             /\ fsFiles' = withBackup
             /\ UNCHANGED adPatched
        ELSE IF writeErr
        THEN /\ adResult' = Failure("write failed")
             /\ fsFiles' = withBackup
             /\ adPatched' = patched
        ELSE /\ adResult' = Success("patched")
             /\ fsFiles' = [withBackup EXCEPT !["f"] = patched]
             /\ adPatched' = patched
  /\ UNCHANGED <<adDiff, adCreateBackup, fsBefore>>
  /\ UNCHANGED <<wfContent, wfCreateDirs, wfPc, wfResult>>
  /\ UNCHANGED <<coreVars, mcpVars, notDiff>>

(***************************************************************************)
(* tools/recovery.ts: the backup store of ErrorRecoveryManager.  Sizes are *)
(* counted in units of 10 MiB and the limits scaled to match; a backup is  *)
(* its byte size and its timestamp.                                        *)
(***************************************************************************)
BackupFiles == {"f", "g"}

\* maxBackupsPerFile (recovery.ts 80), 5 in the code.
maxBackupsPerFile == 3

\* maxTotalBackupSize (recovery.ts 81): 50 MiB.
maxTotalBackupSize == 5

\* The sizes of the files backed up, in the same units.
FileSizes == {0, 1, 3, 6}

RECURSIVE sumSizes(_)
sumSizes(list) == IF list = <<>> THEN 0 ELSE Head(list).size + sumSizes(Tail(list))

\* The byte size of everything this.backups holds.
storedSize(store) == sumSizes(store["f"]) + sumSizes(store["g"])

\* The entries collected by cleanOldestBackupsUntilSpace (recovery.ts
\* 493-500): every backup with its file and its index in the file's array.
collectBackups(store) ==
  UNION {{[filePath |-> fp, index |-> i - 1, timestamp |-> store[fp][i].timestamp] :
            i \in 1..Len(store[fp])} : fp \in BackupFiles}

\* allBackups.sort by timestamp, oldest first (recovery.ts 503); timestamps
\* differ.
RECURSIVE sortOldestFirst(_)
sortOldestFirst(items) ==
  IF items = {} THEN <<>>
  ELSE LET first == CHOOSE a \in items : \A b \in items : a.timestamp <= b.timestamp
       IN <<first>> \o sortOldestFirst(items \ {first})

\* array.splice(index, 1) for a 0-based index
splice(list, index) ==
  [i \in 1..(Len(list) - 1) |-> IF i <= index THEN list[i] ELSE list[i + 1]]

\* The deleting loop of cleanOldestBackupsUntilSpace (recovery.ts 506-522):
\* item.index is the index the backup had when the entries were collected.
RECURSIVE cleanLoop(_, _, _, _, _)
cleanLoop(items, store, size, requiredSpace, evicted) ==
  IF items = <<>> \/ size + requiredSpace <= maxTotalBackupSize
  THEN [store |-> store, size |-> size, evicted |-> evicted]
  ELSE LET item == Head(items)
           fileBackups == store[item.filePath]
       IN IF item.index + 1 \in DOMAIN fileBackups
          THEN LET removed == fileBackups[item.index + 1]
               IN cleanLoop(Tail(items),
                    [store EXCEPT ![item.filePath] = splice(fileBackups, item.index)],
                    size - removed.size, requiredSpace,
                    evicted \cup {[filePath |-> item.filePath,
                                   timestamp |-> removed.timestamp]})
          ELSE cleanLoop(Tail(items), store, size, requiredSpace, evicted)

\* cleanOldestBackupsUntilSpace(requiredSpace) (recovery.ts 492-523)
cleanOldestBackupsUntilSpace(store, size, requiredSpace) ==
  cleanLoop(sortOldestFirst(collectBackups(store)), store, size, requiredSpace, {})

NoEviction == [op |-> "-", byBytes |-> {}, byCount |-> {}]

\* createBackup(filePath, operation) (recovery.ts 287-335) of a file that
\* exists and has the given size; the clock gives the timestamp.
CreateBackup(filePath, backupSize) ==
  /\ bkClock < MaxClock
  /\ bkClock' = bkClock + 1
  /\ LET cleaned == IF currentBackupSize + backupSize > maxTotalBackupSize
                    THEN cleanOldestBackupsUntilSpace(backups, currentBackupSize, backupSize)
                    ELSE [store |-> backups, size |-> currentBackupSize, evicted |-> {}]
         fileBackups == Append(cleaned.store[filePath],
                               [size |-> backupSize, timestamp |-> bkClock + 1])
         over == Len(fileBackups) > maxBackupsPerFile
     IN /\ backups' = [cleaned.store EXCEPT ![filePath] =
                         IF over THEN Tail(fileBackups) ELSE fileBackups]
        /\ currentBackupSize' = cleaned.size + backupSize
                                - (IF over THEN Head(fileBackups).size ELSE 0)
        /\ bkLast' = [op |-> "createBackup", byBytes |-> cleaned.evicted,
                      byCount |-> IF over
                                  THEN {[filePath |-> filePath,
                                         timestamp |-> Head(fileBackups).timestamp]}
                                  ELSE {}]
  /\ UNCHANGED <<coreVars, mcpVars, notBackup>>

\* rollbackFile(filePath) (recovery.ts 340-367): the newest backup of the
\* file is written back and removed.
RollbackFile(filePath) ==
  /\ backups[filePath] # <<>>
  /\ backups' = [backups EXCEPT ![filePath] = SubSeq(@, 1, Len(@) - 1)]
  /\ bkLast' = [NoEviction EXCEPT !.op = "rollbackFile"]
  /\ UNCHANGED <<currentBackupSize, bkClock>>
  /\ UNCHANGED <<coreVars, mcpVars, notBackup>>

\* clearBackups(filePath) and clearBackups() (recovery.ts 379-387)
ClearBackups(files) ==
  /\ \E fp \in files : backups[fp] # <<>>
  /\ backups' = [fp \in BackupFiles |-> IF fp \in files THEN <<>> ELSE backups[fp]]
  /\ bkLast' = [NoEviction EXCEPT !.op = "clearBackups"]
  /\ UNCHANGED <<currentBackupSize, bkClock>>
  /\ UNCHANGED <<coreVars, mcpVars, notBackup>>

\* backups.filter of cleanExpiredBackups for one file: the backups that stay.
RECURSIVE validBackups(_, _)
validBackups(list, cut) ==
  IF list = <<>> THEN <<>>
  ELSE IF Head(list).timestamp <= cut THEN validBackups(Tail(list), cut)
  ELSE <<Head(list)>> \o validBackups(Tail(list), cut)

\* cleanExpiredBackups() (recovery.ts 462-487), run by the interval timer
\* when the backups with a timestamp up to cut are older than backupTTL.
CleanExpiredBackups(cut) ==
  /\ cut \in 1..bkClock
  /\ \E fp \in BackupFiles : validBackups(backups[fp], cut) # backups[fp]
  /\ backups' = [fp \in BackupFiles |-> validBackups(backups[fp], cut)]
  /\ currentBackupSize' = currentBackupSize
        - (storedSize(backups) - storedSize([fp \in BackupFiles |->
                                               validBackups(backups[fp], cut)]))
  /\ bkLast' = [NoEviction EXCEPT !.op = "cleanExpiredBackups"]
  /\ UNCHANGED bkClock
  /\ UNCHANGED <<coreVars, mcpVars, notBackup>>

(***************************************************************************)
(* tools/implementations/write_file.ts                                     *)
(***************************************************************************)
\* The handler of write_file (write_file.ts 38-153) on the file "f".  pathOk
\* is the verdict of validatePath, dirOk says that mkdir succeeds
\* (create_dirs) or that the directory exists (no create_dirs), writeErr
\* that fs.writeFile throws.
WriteFile(pathOk, dirOk, writeErr) ==
  /\ wfPc = "call"
  /\ wfPc' = "done"
  /\ IF ~pathOk
     THEN wfResult' = Failure("path validation") /\ UNCHANGED fsFiles
     ELSE IF ~dirOk
     THEN wfResult' = Failure("directory") /\ UNCHANGED fsFiles
     ELSE IF writeErr
     THEN wfResult' = Failure("write failed") /\ UNCHANGED fsFiles
     ELSE /\ wfResult' = Success("written")
          /\ fsFiles' = [fsFiles EXCEPT !["f"] = wfContent]
  /\ UNCHANGED <<fsBefore, wfContent, wfCreateDirs>>
  /\ UNCHANGED <<adDiff, adCreateBackup, adPc, adResult, adPatched>>
  /\ UNCHANGED <<coreVars, mcpVars, notDiff>>

(***************************************************************************)
(* tools/parser: parseToolCalls, as the orchestrator calls it and as its   *)
(* unit tests and the grammar describe it.  A response is a sequence of    *)
(* tokens: the tags, white space, and the units of the parameter values.   *)
(***************************************************************************)
Tok(tag, text) == [tag |-> tag, text |-> text]

ParamNames == <<"path", "content">>

StringValue(v) == [type |-> "string", text |-> v]

Missing == [type |-> "missing", text |-> <<>>]

NoParams == [k \in {ParamNames[i] : i \in 1..Len(ParamNames)} |-> Missing]

ToolCall(tool, params) == [tool |-> tool, params |-> params]

Digits == {"0", "8"}

\* The decoding of a parameter value: "true" and "false" become booleans,
\* numeric strings become numbers, any other string is kept.
decodeValue(v) ==
  IF v = <<"true">> \/ v = <<"false">> THEN [type |-> "boolean", text |-> v]
  ELSE IF v # <<>> /\ \A i \in 1..Len(v) : v[i] \in Digits
       THEN [type |-> "number", text |-> v]
       ELSE StringValue(v)

\* The tag form of one parameter, one call and a list of calls.
renderParam(params, k) ==
  IF params[k] = Missing THEN <<>>
  ELSE <<Tok("ws", " "), Tok("param", k)>>
       \o [i \in 1..Len(params[k].text) |-> Tok("char", params[k].text[i])]
       \o <<Tok("/param", ""), Tok("ws", "\n")>>

RECURSIVE renderParams(_, _)
renderParams(params, i) ==
  IF i > Len(ParamNames) THEN <<>>
  ELSE renderParam(params, ParamNames[i]) \o renderParams(params, i + 1)

renderCall(c) ==
  <<Tok("invoke", c.tool), Tok("ws", "\n")>> \o renderParams(c.params, 1)
  \o <<Tok("/invoke", ""), Tok("ws", "\n")>>

RECURSIVE renderCalls(_)
renderCalls(calls) ==
  IF calls = <<>> THEN <<>>
  ELSE renderCall(Head(calls)) \o renderCalls(Tail(calls))

renderAction(calls) ==
  <<Tok("action", ""), Tok("ws", "\n")>> \o renderCalls(calls) \o <<Tok("/action", "")>>

\* The position of the first closing </param> from position i on, 0 if none.
closingParam(text, i) ==
  IF \E j \in i..Len(text) : text[j].tag = "/param"
  THEN CHOOSE j \in i..Len(text) :
         /\ text[j].tag = "/param"
         /\ \A m \in i..(j - 1) : text[m].tag # "/param"
  ELSE 0

\* The value between two positions, verbatim.
valueText(text, from, to) == [i \in 1..(to - from + 1) |-> text[from + i - 1].text]

setParam(cur, k, v) == [cur EXCEPT !.params[k] = decodeValue(v)]

endInvoke_prepend(out, cur) == <<cur>> \o out

endInvoke(out, cur) == Append(out, cur)

NoInvoke == ToolCall("", NoParams)

\* The scan of parseToolCalls: cur is the open <invoke>, out the calls so far.
RECURSIVE scanCalls(_, _, _, _)
scanCalls(text, i, cur, out) ==
  IF i > Len(text) THEN out
  ELSE IF text[i].tag = "invoke"
       THEN scanCalls(text, i + 1, ToolCall(text[i].text, NoParams), out)
  ELSE IF text[i].tag = "param" /\ cur # NoInvoke
       THEN IF closingParam(text, i + 1) = 0
            THEN scanCalls(text, i + 1, cur, out)
            ELSE scanCalls(text, closingParam(text, i + 1) + 1,
                           setParam(cur, text[i].text,
                                    valueText(text, i + 1, closingParam(text, i + 1) - 1)),
                           out)
  ELSE IF text[i].tag = "/invoke" /\ cur # NoInvoke
       THEN scanCalls(text, i + 1, NoInvoke, endInvoke(out, cur))
  ELSE scanCalls(text, i + 1, cur, out)

parseToolCalls(text) == scanCalls(text, 1, NoInvoke, <<>>)

\* The model's answer is put in the tag form.
RenderResponse ==
  /\ prPc = "calls"
  /\ prText' = renderAction(prCalls)
  /\ prPc' = "rendered"
  /\ UNCHANGED <<prCalls, prParsed>>
  /\ UNCHANGED <<coreVars, mcpVars, oldExt, notParse>>

\* orchestrator.run: const { toolCalls, textContent } = parseToolCalls(...)
ParseResponse ==
  /\ prPc = "rendered"
  /\ prParsed' = parseToolCalls(prText)
  /\ prPc' = "parsed"
  /\ UNCHANGED <<prCalls, prText>>
  /\ UNCHANGED <<coreVars, mcpVars, oldExt, notParse>>

(***************************************************************************)
(* AgentOrchestrator.run: what the start of a run does to the messages the *)
(* caller gave.  Message objects live in a heap and arrays hold their      *)
(* references; a content is the sequence of its sections.                  *)
(***************************************************************************)
\* ${systemContent} followed by the memory section.
withMemorySummary(content) == Append(content, "memory")

\* ${systemContent} followed by the tool list and the calling format.
injectToolDefinitions(systemContent, tools) == Append(systemContent, "tools")

\* const messages = [...initialMessages]: a new array of the same objects.
spread(array) == [i \in 1..Len(array) |-> array[i]]

contentAfterMemory(heap, array, memorySummary) ==
  IF memorySummary /\ Len(array) > 0 /\ heap[array[1]].role = "system"
  THEN [heap EXCEPT ![array[1]].content = withMemorySummary(@)]
  ELSE heap

contentAfterTools(heap, array, tools) ==
  IF tools > 0 /\ Len(array) > 0 /\ heap[array[1]].role = "system"
  THEN [heap EXCEPT ![array[1]].content = injectToolDefinitions(@, tools)]
  ELSE heap

\* run(initialMessages) up to the loop.
RunBegin(memorySummary) ==
  /\ injPc = "idle"
  /\ injRuns < MaxRuns
  /\ injLocal' = spread(injCaller)
  /\ injHeap' = contentAfterTools(contentAfterMemory(injHeap, spread(injCaller), memorySummary),
                                  spread(injCaller), injTools)
  /\ injPc' = "running"
  /\ UNCHANGED <<injCaller, injTools, injRuns>>
  /\ UNCHANGED <<coreVars, mcpVars, oldExt, notInject>>

\* messages.push({ role: "assistant", ... }) in the loop.
RunPush ==
  /\ injPc = "running"
  /\ Len(injLocal) < Len(injCaller) + MaxPushes
  /\ injHeap' = Append(injHeap, [role |-> "assistant", content |-> <<"reply">>])
  /\ injLocal' = Append(injLocal, Len(injHeap) + 1)
  /\ UNCHANGED <<injCaller, injTools, injPc, injRuns>>
  /\ UNCHANGED <<coreVars, mcpVars, oldExt, notInject>>

\* run returns.
RunReturn ==
  /\ injPc = "running"
  /\ injPc' = "idle"
  /\ injRuns' = injRuns + 1
  /\ injLocal' = <<>>
  /\ UNCHANGED <<injCaller, injHeap, injTools>>
  /\ UNCHANGED <<coreVars, mcpVars, oldExt, notInject>>

(***************************************************************************)
(* The ways the process ends: runCleanupAndExit with the handlers given to *)
(* onExit, and the q answer of ToolExecutor.requestApproval.               *)
(***************************************************************************)
CleanupActions == {"disconnectAll", "saveHistory"}

\* onExit(handler): cleanupHandlers.push(handler)
OnExit(handler) ==
  /\ exPc = "startup"
  /\ Len(cleanupHandlers) < MaxHandlers
  /\ handler \notin {cleanupHandlers[i] : i \in 1..Len(cleanupHandlers)}
  /\ cleanupHandlers' = Append(cleanupHandlers, handler)
  /\ UNCHANGED <<exRan, exClients, exPc, exIndex, exAnswer, exInvoked>>
  /\ UNCHANGED <<coreVars, mcpVars, oldExt, notExit>>

\* A tool call of the session reaches the approval prompt.
RequestApproval ==
  /\ exPc \in {"startup", "session"}
  /\ exPc' = "prompt"
  /\ exAnswer' = "-"
  /\ exInvoked' = FALSE
  /\ UNCHANGED <<cleanupHandlers, exRan, exClients, exIndex>>
  /\ UNCHANGED <<coreVars, mcpVars, oldExt, notExit>>

\* The rl.question callback of requestApproval.
ApprovalAnswer(a) ==
  /\ exPc = "prompt"
  /\ exAnswer' = normalized(a)
  /\ IF normalized(a) = "q" \/ normalized(a) = "quit"
     THEN \* process.exit(0)
          /\ exPc' = "exited"
          /\ UNCHANGED exInvoked
     ELSE IF normalized(a) = "d" \/ normalized(a) = "diff"
     THEN UNCHANGED <<exPc, exInvoked>>
     ELSE IF approves(normalized(a))
     THEN /\ exPc' = "session"
          /\ exInvoked' = TRUE
     ELSE /\ exPc' = "session"
          /\ UNCHANGED exInvoked
  /\ UNCHANGED <<cleanupHandlers, exRan, exClients, exIndex>>
  /\ UNCHANGED <<coreVars, mcpVars, oldExt, notExit>>

\* runCleanupAndExit(code) is called.
RunCleanupAndExit ==
  /\ exPc = "session"
  /\ exPc' = "cleanup"
  /\ exIndex' = 1
  /\ UNCHANGED <<cleanupHandlers, exRan, exClients, exAnswer, exInvoked>>
  /\ UNCHANGED <<coreVars, mcpVars, oldExt, notExit>>

\* McpManager.disconnectAll(): this.clients.clear()
disconnectAll(clients) == 0

\* One turn of the loop of runCleanupAndExit: await handler(), errors caught;
\* after the last handler, process.exit(code).
CleanupStep(throws) ==
  /\ exPc = "cleanup"
  /\ IF exIndex <= Len(cleanupHandlers)
     THEN /\ exRan' = Append(exRan, cleanupHandlers[exIndex])
          /\ exClients' = IF cleanupHandlers[exIndex] = "disconnectAll" /\ ~throws
                          THEN disconnectAll(exClients) ELSE exClients
          /\ exIndex' = exIndex + 1
          /\ UNCHANGED exPc
     ELSE /\ exPc' = "exited"
          /\ UNCHANGED <<exRan, exClients, exIndex>>
  /\ UNCHANGED <<cleanupHandlers, exAnswer, exInvoked>>
  /\ UNCHANGED <<coreVars, mcpVars, oldExt, notExit>>

(***************************************************************************)
(* A write_file call in review mode: the diff preview of the executor and  *)
(* the path check of the handler.                                          *)
(***************************************************************************)
\* showDiffPreview(filePath, ...): fs.readFile(filePath, "utf-8")
showDiffPreview(reads, filePath) == reads \cup {filePath}

\* requestApproval up to the prompt: the preview is shown when params.path
\* is not the empty string.
RequestApprovalOfWrite ==
  /\ pvPc = "request"
  /\ pvReads' = IF inputPath # <<>> THEN showDiffPreview(pvReads, inputPath) ELSE pvReads
  /\ pvPc' = "prompt"
  /\ UNCHANGED <<pvWrites, pvPrompts>>
  /\ UNCHANGED <<turnVars, runVars, pathVars, compVars, streamVars>>
  /\ UNCHANGED <<mcpVars, oldExt, notPreview>>

\* The rl.question callback of requestApproval for that call.
AnswerOfWrite(a) ==
  /\ pvPc = "prompt"
  /\ IF normalized(a) = "q" \/ normalized(a) = "quit"
     THEN pvPc' = "exited" /\ UNCHANGED <<pvReads, pvPrompts>>
     ELSE IF normalized(a) = "d" \/ normalized(a) = "diff"
     THEN /\ pvPrompts < MaxPrompts
          /\ pvPrompts' = pvPrompts + 1
          /\ pvReads' = showDiffPreview(pvReads, inputPath)
          /\ pvPc' = "request"
     ELSE IF approves(normalized(a))
     THEN pvPc' = "handler" /\ UNCHANGED <<pvReads, pvPrompts>>
     ELSE pvPc' = "done" /\ UNCHANGED <<pvReads, pvPrompts>>
  /\ UNCHANGED pvWrites
  /\ UNCHANGED <<turnVars, runVars, pathVars, compVars, streamVars>>
  /\ UNCHANGED <<mcpVars, oldExt, notPreview>>

\* writeFileTool.handler: validatePath, then the write to normalizedPath.
WriteFileHandler(writeErr) ==
  /\ pvPc = "handler"
  /\ pvPc' = "done"
  /\ vpc' = "done"
  /\ validation' = validatePathResult(inputPath, workspaceRoot)
  /\ pvWrites' = IF validation'.valid /\ ~writeErr THEN {validation'.normalizedPath} ELSE {}
  /\ UNCHANGED <<inputPath, workspaceRoot, pvReads, pvPrompts>>
  /\ UNCHANGED <<turnVars, runVars, compVars, streamVars>>
  /\ UNCHANGED <<mcpVars, oldExt, notPreview>>

(***************************************************************************)
(* mcp/client.ts: the stdout data handler on a stream of bytes.  A body is *)
(* a sequence of characters, "a" of one byte and "é" of the two bytes E1   *)
(* and E2; a header line is one unit; "?" is the replacement character     *)
(* U+FFFD that Buffer.toString writes for bytes that are not UTF-8.        *)
(***************************************************************************)
BodyChars == {"a", "é"}

HeaderLines == <<"L1", "L2", "L3", "L4", "L5", "L6", "L7", "L8", "L9", "L10">>

\* Buffer.from(body): the bytes of a string.
RECURSIVE utf8(_)
utf8(str) ==
  IF str = <<>> THEN <<>>
  ELSE (IF Head(str) = "é" THEN <<"E1", "E2">> ELSE <<Head(str)>>) \o utf8(Tail(str))

\* Buffer.byteLength(msg)
byteLength(str) == Len(utf8(str))

\* What a server writes for one body: Content-Length: N, CR LF CR LF and
\* the N bytes of the body.
FrameBytes(body) ==
  <<HeaderLines[byteLength(body)], "\r", "\n", "\r", "\n">> \o utf8(body)

\* data.toString(): the bytes of one chunk decoded on their own.
RECURSIVE toString(_)
toString(bytes) ==
  IF bytes = <<>> THEN <<>>
  ELSE IF Head(bytes) = "E1"
       THEN IF Len(bytes) >= 2 /\ bytes[2] = "E2"
            THEN <<"é">> \o toString(Tail(Tail(bytes)))
            ELSE <<"?">> \o toString(Tail(bytes))
  ELSE IF Head(bytes) = "E2" THEN <<"?">> \o toString(Tail(bytes))
  ELSE <<Head(bytes)>> \o toString(Tail(bytes))

\* header.match(/Content-Length:\s*(\d+)/i) and parseInt(match[1], 10): the
\* length the first header line states, -1 without one.
statedLength(header) ==
  LET hits == {i \in 1..Len(header) : \E n \in 1..Len(HeaderLines) : header[i] = HeaderLines[n]}
      first == CHOOSE i \in hits : \A j \in hits : i <= j
  IN IF hits = {} THEN -1
     ELSE CHOOSE n \in 1..Len(HeaderLines) : header[first] = HeaderLines[n]

\* JSON.parse of a text: the documents are the non-empty strings of body
\* characters.
isJsonDocument(text) == text # <<>> /\ \A i \in 1..Len(text) : text[i] \in BodyChars

\* The loop of tryParseDirectJson over the lines of the buffer.
RECURSIVE directDocuments(_)
directDocuments(lines) ==
  IF lines = <<>> THEN [remaining |-> <<>>, bodies |-> <<>>]
  ELSE LET line == Head(lines)
           rest == directDocuments(Tail(lines))
       IN IF trim(line) = <<>> THEN rest
          ELSE IF isJsonDocument(trim(line))
               THEN [rest EXCEPT !.bodies = <<trim(line)>> \o @]
               ELSE [rest EXCEPT !.remaining = <<line>> \o @]

tryParseDirectDocuments(buf) ==
  LET r == directDocuments(splitOn(buf, "\n", <<>>))
  IN [buffer |-> join(r.remaining, <<"\n">>), bodies |-> r.bodies]

\* this.buffer.length < bodyStart + contentLength
bodyIsMissing(buf, bodyStart, contentLength) == Len(buf) < bodyStart + contentLength

\* processBuffer(): the buffer left and the bodies handled, in order.
RECURSIVE processBytes(_)
processBytes(buf) ==
  LET headerEnd == indexOf(buf, <<"\r", "\n", "\r", "\n">>)
  IN IF headerEnd = -1 THEN [buffer |-> buf, bodies |-> <<>>]
     ELSE LET header == substring(buf, 0, headerEnd)
              contentLength == statedLength(header)
              bodyStart == headerEnd + 4
          IN IF contentLength = -1 THEN tryParseDirectDocuments(buf)
             ELSE IF bodyIsMissing(buf, bodyStart, contentLength)
                  THEN [buffer |-> buf, bodies |-> <<>>]
                  ELSE LET body == substring(buf, bodyStart, bodyStart + contentLength)
                           next == processBytes(
                                     substring(buf, bodyStart + contentLength, Len(buf)))
                       IN [next EXCEPT !.bodies = <<body>> \o @]

\* The server writes one more message.
ServerWrites(body) ==
  /\ Len(bySent) < MaxMessages
  /\ bySent' = Append(bySent, body)
  /\ byWire' = byWire \o FrameBytes(body)
  /\ UNCHANGED <<byBuffer, byHandled>>
  /\ UNCHANGED <<coreVars, mcpVars, oldExt, notBytes>>

\* A data event with the next n bytes: this.buffer += data.toString();
\* this.processBuffer().
DataEvent(n) ==
  /\ n \in 1..Len(byWire)
  /\ byWire' = SubSeq(byWire, n + 1, Len(byWire))
  /\ byBuffer' = processBytes(byBuffer \o toString(SubSeq(byWire, 1, n))).buffer
  /\ byHandled' = byHandled \o processBytes(byBuffer \o toString(SubSeq(byWire, 1, n))).bodies
  /\ UNCHANGED bySent
  /\ UNCHANGED <<coreVars, mcpVars, oldExt, notBytes>>

(***************************************************************************)
(* The slash commands that change context.messages.                        *)
(***************************************************************************)
\* handleCompress(context): the messages array after the command.
handleCompress(msgs) ==
  IF Len(msgs) <= 2 THEN msgs
  ELSE LET systemMsg == msgs[1]
           recentMessages == sliceLast(msgs, 6)
           beforeCount == Len(msgs)
       IN <<systemMsg, Msg("system", "compressed", beforeCount - Len(recentMessages) - 1)>>
          \o recentMessages

\* /compress
HandleCompress ==
  /\ cpc < MaxApplications
  /\ cpc' = cpc + 1
  /\ previous' = transcript
  /\ transcript' = handleCompress(transcript)
  /\ UNCHANGED <<effectiveMax, currentTokens, isCompressed>>
  /\ UNCHANGED <<turnVars, runVars, pathVars, streamVars, mcpVars, extVars>>

\* A custom command: context.messages.push({ role: "user", content: prompt })
CustomCommand ==
  /\ Len(transcript) < MaxTranscript
  /\ transcript' = Append(transcript, Msg("user", "custom", Len(transcript) + 1))
  /\ UNCHANGED <<effectiveMax, currentTokens, previous, isCompressed, cpc>>
  /\ UNCHANGED <<turnVars, runVars, pathVars, streamVars, mcpVars, extVars>>

(***************************************************************************)
(* Specification of a turn.                                                *)
(***************************************************************************)
\* No runCommandSafe call is in progress.
RunnerIdle ==
  /\ command = <<>>
  /\ args = <<>>
  /\ policy = getDefaultPolicy
  /\ platform = "linux"
  /\ rpc = "idle"
  /\ allowed = FALSE
  /\ rejection = "-"
  /\ spawned = 0
  /\ useShell = FALSE

\* No validatePath call is in progress.
ValidatorIdle ==
  /\ inputPath = <<>>
  /\ workspaceRoot = <<"/">>
  /\ vpc = "idle"
  /\ validation = NoValidation

\* A constructed orchestrator on which run() has not been called.
CompressIdle ==
  /\ transcript = <<>>
  /\ effectiveMax = 0
  /\ currentTokens = 0
  /\ previous = <<>>
  /\ isCompressed = FALSE
  /\ cpc = 0

StreamIdle ==
  /\ chunks = <<>>
  /\ streamText = <<>>
  /\ silent = FALSE
  /\ fullResponse = <<>>
  /\ insideAction = FALSE
  /\ outputtedLength = 0
  /\ displayed = <<>>
  /\ displayedAt = <<>>
  /\ spc = "idle"

\* A McpClient after construction (client.ts 43-57).
McpIdle ==
  /\ mcpProcess = FALSE
  /\ requestId = 0
  /\ pendingRequests = <<>>
  /\ timers = {}
  /\ requests = <<>>
  /\ lastMsg = NoMsg
  /\ handled = 0

\* No output of the server has been received.
FrameIdle ==
  /\ buffer = <<>>
  /\ wire = <<>>
  /\ replied = <<>>

\* A McpManager on which initialize() has not been called.
ManagerIdle ==
  /\ servers = <<>>
  /\ isTTY = FALSE
  /\ mgrPc = "idle"
  /\ mgrIndex = 0
  /\ mgrAnswers = <<>>
  /\ mgrSpawned = <<>>
  /\ mgrSkipped = {}

\* No MCP tool is being called.
McpToolIdle ==
  /\ mtReply = [rejected |-> FALSE, hasContent |-> FALSE, content |-> <<>>, isError |-> FALSE]
  /\ mtPc = "idle"
  /\ mtResult = NoResult
  /\ mtText = <<>>

\* No child process has been spawned.
ChildIdle ==
  /\ chState = "none"
  /\ chOnTerm = "die"
  /\ chExit = [code |-> -1, signal |-> "none"]
  /\ chCause = "-"
  /\ chTermSent = FALSE
  /\ chStdout = 0
  /\ finished = FALSE
  /\ timeoutId = "none"
  /\ rcPromise = "none"
  /\ rcResult = NoCommandResult

\* apply_diff is not being called.
DiffIdle ==
  /\ fsFiles = [p \in {"f", "f.backup"} |-> Absent]
  /\ fsBefore = fsFiles
  /\ adDiff = <<>>
  /\ adCreateBackup = TRUE
  /\ adPc = "idle"
  /\ adResult = NoResult
  /\ adPatched = <<>>
  /\ wfContent = EmptyContent
  /\ wfCreateDirs = TRUE
  /\ wfPc = "idle"
  /\ wfResult = NoResult

\* An ErrorRecoveryManager after construction (recovery.ts 79-90).
BackupIdle ==
  /\ backups = [fp \in BackupFiles |-> <<>>]
  /\ currentBackupSize = 0
  /\ bkClock = 0
  /\ bkLast = NoEviction

ParseIdle ==
  /\ prCalls = <<>>
  /\ prText = <<>>
  /\ prParsed = <<>>
  /\ prPc = "idle"

InjectIdle ==
  /\ injHeap = <<>>
  /\ injCaller = <<>>
  /\ injLocal = <<>>
  /\ injTools = 0
  /\ injPc = "off"
  /\ injRuns = 0

ExitIdle ==
  /\ cleanupHandlers = <<>>
  /\ exRan = <<>>
  /\ exClients = 0
  /\ exPc = "off"
  /\ exIndex = 0
  /\ exAnswer = "-"
  /\ exInvoked = FALSE

PreviewIdle ==
  /\ pvPc = "off"
  /\ pvReads = {}
  /\ pvWrites = {}
  /\ pvPrompts = 0

BytesIdle ==
  /\ byWire = <<>>
  /\ bySent = <<"off">>
  /\ byBuffer = <<>>
  /\ byHandled = <<>>

LateIdle ==
  /\ ParseIdle
  /\ InjectIdle
  /\ ExitIdle
  /\ PreviewIdle
  /\ BytesIdle

oldExtIdle ==
  /\ FrameIdle
  /\ ManagerIdle
  /\ McpToolIdle
  /\ ChildIdle
  /\ DiffIdle
  /\ BackupIdle

ExtIdle ==
  /\ oldExtIdle
  /\ LateIdle

TurnIdle(mode, maxIter) ==
  /\ safetyMode = mode
  /\ epc = "idle"
  /\ call = NoCall
  /\ result = NoResult
  /\ prompts = 0
  /\ lastAnswer = "-"
  /\ handlerInvoked = 0
  /\ opc = "init"
  /\ maxIterations = maxIter
  /\ iterations = 0
  /\ toolCallsExecuted = 0
  /\ finalResponse = 0
  /\ consecutiveFailures = 0
  /\ lastFailedTool = ""
  /\ hasFailure = FALSE
  /\ batchWrites = FALSE
  /\ pending = <<>>
  /\ toolResults = <<>>
  /\ messages = <<>>
  /\ ret = NoRet
  /\ failRun = [tool |-> "", n |-> 0]
  /\ tripped = FALSE
  /\ stopCause = "none"
  /\ llmCalls = 0
  /\ llmResponses = 0
  /\ batchesRun = 0
  /\ writeSucceeded = FALSE
  /\ testConfigured = FALSE
  /\ testRan = FALSE

Init ==
  /\ \E mode \in SafetyModes : TurnIdle(mode, MaxIterBound)
  /\ RunnerIdle
  /\ ValidatorIdle
  /\ CompressIdle
  /\ StreamIdle
  /\ McpIdle
  /\ ExtIdle

Next ==
  \/ Run
  \/ \E r \in Responses(iterations) : LLMRespond(r)
  \/ LLMThrow
  \/ ExecStart
  \/ \E a \in Answers : Answer(a)
  \/ \E o \in HandlerOutcomes : HandlerReturn(o)
  \/ \E test \in {"null", "pass", "fail"}, over \in BOOLEAN : ToolReturn(test, over)

Spec == Init /\ [][Next]_vars

\* The turn when every request is answered: the LLM request settles, the
\* handler settles, the user answers the prompt.  The turns checked for
\* termination have their own bounds.
InitFair ==
  /\ \E mode \in SafetyModes : TurnIdle(mode, MaxFairIter)
  /\ RunnerIdle
  /\ ValidatorIdle
  /\ CompressIdle
  /\ StreamIdle
  /\ McpIdle
  /\ ExtIdle

NextFair ==
  \/ Run
  \/ \E r \in {x \in Responses(iterations) : Len(x.toolCalls) <= MaxFairBatch} :
       LLMRespond(r)
  \/ LLMThrow
  \/ ExecStart
  \/ \E a \in Answers : Answer(a)
  \/ \E o \in HandlerOutcomes : HandlerReturn(o)
  \/ \E test \in {"null", "pass", "fail"}, over \in BOOLEAN : ToolReturn(test, over)

SpecFair == InitFair /\ [][NextFair]_vars /\ WF_vars(NextFair)

(***************************************************************************)
(* Specification of runCommandSafe under a policy that denies dd (an entry *)
(* of the default deny-list): the command token and the arguments range    *)
(* over strings of shell metacharacters.                                   *)
(***************************************************************************)
ShellPieces ==
  { <<";">>, <<Backtick>>, <<"$", "(">>, <<"$", "{">>, <<"|", "|">>, <<"&", "&">>,
    <<"\n">>, <<"\r">>, <<"d">>, <<"d", "d">>, <<"$">>, <<"(">>, <<"&">>, <<"|">> }

\* The command tokens: up to MaxTokenPieces pieces; the arguments: one piece
\* or the empty string.
CommandTokens == StringsOfPieces(ShellPieces, MaxTokenPieces)

ArgStrings == StringsOfPieces(ShellPieces, 1)

InitRunner ==
  /\ TurnIdle("review", 1)
  /\ ValidatorIdle
  /\ CompressIdle
  /\ StreamIdle
  /\ McpIdle
  /\ ExtIdle
  /\ command \in CommandTokens
  /\ args \in UNION {[1..n -> ArgStrings] : n \in 0..MaxArgs}
  /\ policy = [blockedCommands |-> << <<"d", "d">> >>, allowedCommands |-> <<>>]
  /\ platform \in {"linux", "win32"}
  /\ rpc = "idle"
  /\ allowed = FALSE
  /\ rejection = "-"
  /\ spawned = 0
  /\ useShell = FALSE

NextRunner == runCommandSafe

SpecRunner == InitRunner /\ [][NextRunner]_vars

(***************************************************************************)
(* Specification of isCommandAllowed: runCommandSafe without arguments     *)
(* under policies with small allow- and deny-lists.                        *)
(***************************************************************************)
CommandPieces ==
  { <<"s">>, <<"S">>, <<"h">>, <<"/">>, <<"\\">>, <<" ">>, <<".", "s", "h">>,
    <<".", "S", "h">>, <<"s", " ", "h">> }

CommandStrings == StringsOfPieces(CommandPieces, MaxCmdPieces)

\* Entries a configured list may hold: a name with an argument, a path with
\* an extension.
ListEntries == { <<"s", " ", "h">>, <<"/", "S", ".", "s", "h">> }

CommandLists == UNION {[1..n -> ListEntries] : n \in 0..MaxListLen}

InitPolicy ==
  /\ TurnIdle("review", 1)
  /\ ValidatorIdle
  /\ CompressIdle
  /\ StreamIdle
  /\ McpIdle
  /\ ExtIdle
  /\ command \in CommandStrings
  /\ args = <<>>
  /\ policy \in [blockedCommands : CommandLists, allowedCommands : CommandLists]
  /\ platform = "linux"
  /\ rpc = "idle"
  /\ allowed = FALSE
  /\ rejection = "-"
  /\ spawned = 0
  /\ useShell = FALSE

SpecPolicy == InitPolicy /\ [][NextRunner]_vars

(***************************************************************************)
(* Specification of validatePath.                                          *)
(***************************************************************************)
PathChars == {"/", ".", "e", "t", "c", " ", "*"}

WorkspaceRoots == { <<"/">>, <<"/", "e">>, <<"/", "e", "t">> }

InitPath ==
  /\ TurnIdle("review", 1)
  /\ RunnerIdle
  /\ CompressIdle
  /\ StreamIdle
  /\ McpIdle
  /\ ExtIdle
  /\ inputPath \in StringsOver(PathChars, MaxPathLen)
  /\ workspaceRoot \in WorkspaceRoots
  /\ vpc = "idle"
  /\ validation = NoValidation

NextPath == validatePath

SpecPath == InitPath /\ [][NextPath]_vars

(***************************************************************************)
(* Specification of autoCompressMessages: transcripts that begin with the   *)
(* system message, and context windows in units of the token estimate.     *)
(***************************************************************************)
ContextWindows == {5, 10}

Transcripts ==
  { [i \in 1..n |-> Msg(IF i = 1 THEN "system" ELSE IF i % 2 = 0 THEN "user" ELSE "assistant",
                         "text", i)] : n \in 1..MaxTranscript }

InitCompress ==
  /\ TurnIdle("review", 1)
  /\ RunnerIdle
  /\ ValidatorIdle
  /\ StreamIdle
  /\ McpIdle
  /\ ExtIdle
  /\ transcript \in Transcripts
  /\ effectiveMax \in ContextWindows
  /\ currentTokens = 0
  /\ previous = <<>>
  /\ isCompressed = FALSE
  /\ cpc = 0

NextCompress == \E tokens \in 0..effectiveMax : AutoCompress(tokens)

SpecCompress == InitCompress /\ [][NextCompress]_vars

(***************************************************************************)
(* Specification of streamResponse: a model output cut into chunks at      *)
(* every choice of at most MaxChunks - 1 positions.                        *)
(***************************************************************************)
StreamTexts ==
  { <<"a", "b">>,
    <<"a", "<", "b">>,
    OpenTag \o <<"i">> \o CloseTag,
    <<"a">> \o OpenTag \o <<"i">> \o CloseTag \o <<"b">> }

\* The ways to cut a text of length len into at most n non-empty chunks: the
\* increasing sequences of at most n - 1 cut positions.
Cuts(len, n) ==
  UNION { {c \in [1..k -> 1..(len - 1)] : \A i \in 1..(k - 1) : c[i] < c[i + 1]} :
          k \in 0..(n - 1) }

chunksOf(text, c) ==
  [i \in 1..(Len(c) + 1) |->
     SubSeq(text, IF i = 1 THEN 1 ELSE c[i - 1] + 1,
                  IF i = Len(c) + 1 THEN Len(text) ELSE c[i])]

InitStream ==
  /\ TurnIdle("review", 1)
  /\ RunnerIdle
  /\ ValidatorIdle
  /\ CompressIdle
  /\ McpIdle
  /\ ExtIdle
  /\ streamText \in StreamTexts
  /\ \E c \in Cuts(Len(streamText), MaxChunks) : chunks = chunksOf(streamText, c)
  /\ silent \in BOOLEAN
  /\ fullResponse = <<>>
  /\ insideAction = FALSE
  /\ outputtedLength = 0
  /\ displayed = <<>>
  /\ displayedAt = <<>>
  /\ spc = "streaming"

NextStream == StreamChunk \/ StreamEnd \/ StreamThrow

SpecStream == InitStream /\ [][NextStream]_vars

(***************************************************************************)
(* Specification of one McpClient: requests are sent, responses with any   *)
(* id arrive, timers fire and the child closes, in any order.              *)
(***************************************************************************)
ResponseMsgs == [id : 0..(MaxRequests + 1), error : BOOLEAN, payload : {"p", "q"}]

InitMcp ==
  /\ TurnIdle("review", 1)
  /\ RunnerIdle
  /\ ValidatorIdle
  /\ CompressIdle
  /\ StreamIdle
  /\ McpIdle
  /\ ExtIdle

NextMcp ==
  \/ Connect
  \/ \E method \in Methods : SendRequest(method)
  \/ \E msg \in ResponseMsgs : HandleResponse(msg)
  \/ \E k \in 1..MaxRequests : Timeout(k)
  \/ Close

SpecMcp == InitMcp /\ [][NextMcp]_vars

\* One client, its server answering each request once in either framing, and
\* the answers reaching the data handler in pieces of any size.
InitFrame ==
  /\ TurnIdle("review", 1)
  /\ RunnerIdle
  /\ ValidatorIdle
  /\ CompressIdle
  /\ StreamIdle
  /\ McpIdle
  /\ ExtIdle

NextFrame ==
  \/ Connect
  \/ \E method \in Methods : SendRequest(method)
  \/ \E id \in 1..MaxRequests, framing \in Framings : ServerReply(id, framing)
  \/ \E n \in 1..(7 * MaxRequests) : OnData(n)

SpecFrame == InitFrame /\ [][NextFrame]_vars

\* The launcher commands of the configured servers: a directory, a name and
\* an extension each.
LauncherCommands ==
  {d \o n \o e : d \in {<<>>, <<"/", "t", "/">>},
                 n \in {<<"U", "v">>, <<"s", "h">>},
                 e \in {<<>>, <<".", "C", "m", "d">>}}

PromptAnswers == {<<"y">>, <<" ", "Y", "\n">>, <<"n">>, <<>>, <<"y", "e", "s">>}

InitManager ==
  /\ TurnIdle("review", 1)
  /\ RunnerIdle
  /\ ValidatorIdle
  /\ CompressIdle
  /\ StreamIdle
  /\ McpIdle
  /\ FrameIdle
  /\ servers \in StringsOver(LauncherCommands, MaxServers)
  /\ isTTY \in BOOLEAN
  /\ mgrPc = "idle"
  /\ mgrIndex = 0
  /\ mgrAnswers = <<>>
  /\ mgrSpawned = <<>>
  /\ mgrSkipped = {}
  /\ McpToolIdle
  /\ ChildIdle
  /\ DiffIdle
  /\ BackupIdle
  /\ LateIdle

NextManager ==
  \/ Initialize
  \/ CheckServer
  \/ \E answer \in PromptAnswers : AnswerPrompt(answer)
  \/ \E ok \in BOOLEAN : ConnectServer(ok)

SpecManager == InitManager /\ [][NextManager]_vars

\* The ways a tools/call request settles: rejected (error response, timeout,
\* close), or resolved with a result that has a content array or none.
CallToolReplies ==
  {[rejected |-> TRUE, hasContent |-> FALSE, content |-> <<>>, isError |-> FALSE]}
  \cup [rejected : {FALSE}, hasContent : {TRUE},
        content : StringsOver(ContentItems, MaxContent), isError : BOOLEAN]
  \cup [rejected : {FALSE}, hasContent : {FALSE}, content : {<<>>}, isError : BOOLEAN]

InitMcpTool ==
  /\ TurnIdle("review", 1)
  /\ RunnerIdle
  /\ ValidatorIdle
  /\ CompressIdle
  /\ StreamIdle
  /\ McpIdle
  /\ FrameIdle
  /\ ManagerIdle
  /\ mtReply \in CallToolReplies
  /\ mtPc = "calling"
  /\ mtResult = NoResult
  /\ mtText = <<>>
  /\ ChildIdle
  /\ DiffIdle
  /\ BackupIdle
  /\ LateIdle

NextMcpTool ==
  \/ McpToolCall
  \/ McpToolReport

SpecMcpTool == InitMcpTool /\ [][NextMcpTool]_vars

\* runCommandSafe has passed its checks and called spawn (runner.ts 40-60):
\* the child runs or could not be started, the timer is armed and the
\* promise is pending.
InitChild ==
  /\ TurnIdle("review", 1)
  /\ RunnerIdle
  /\ ValidatorIdle
  /\ CompressIdle
  /\ StreamIdle
  /\ McpIdle
  /\ FrameIdle
  /\ ManagerIdle
  /\ McpToolIdle
  /\ chState \in {"running", "failed"}
  /\ chOnTerm \in TermHandling
  /\ chExit = [code |-> -1, signal |-> "none"]
  /\ chCause = "-"
  /\ chTermSent = FALSE
  /\ chStdout = 0
  /\ finished = FALSE
  /\ timeoutId = "armed"
  /\ rcPromise = "pending"
  /\ rcResult = NoCommandResult
  /\ DiffIdle
  /\ BackupIdle
  /\ LateIdle

NextChild ==
  \/ StdoutData
  \/ \E code \in 0..1 : ChildExits(code)
  \/ \E signal \in Signals : ExternalSignal(signal)
  \/ TimerFires
  \/ OnClose
  \/ OnError

SpecChild == InitChild /\ [][NextChild]_vars

FileLines == {"a", ""}

FileContents == StringsOver(FileLines, MaxLines) \ {<<>>}

DiffLines ==
  {Hunk(n) : n \in 0..MaxStart}
  \cup {BadHunk, DiffLine("+", "a"), DiffLine("-", "a"), DiffLine(" ", "a"),
        DiffLine("---", "a/f"), DiffLine("---", "/dev/null")}

Diffs == StringsOver(DiffLines, MaxDiffLines)

\* The model calls apply_diff on the file "f", which exists or not; no
\* backup of it exists yet.
InitDiff ==
  /\ TurnIdle("review", 1)
  /\ RunnerIdle
  /\ ValidatorIdle
  /\ CompressIdle
  /\ StreamIdle
  /\ McpIdle
  /\ FrameIdle
  /\ ManagerIdle
  /\ McpToolIdle
  /\ ChildIdle
  /\ adDiff \in Diffs
  /\ adCreateBackup \in BOOLEAN
  /\ \E content \in FileContents \cup {Absent} :
       fsFiles = [p \in {"f", "f.backup"} |-> IF p = "f" THEN content ELSE Absent]
  /\ fsBefore = fsFiles
  /\ adPc = "call"
  /\ adResult = NoResult
  /\ adPatched = <<>>
  /\ wfContent = EmptyContent
  /\ wfCreateDirs = TRUE
  /\ wfPc = "idle"
  /\ wfResult = NoResult
  /\ BackupIdle
  /\ LateIdle

NextDiff ==
  \E pathOk, readErr, backupErr, writeErr \in BOOLEAN :
    ApplyDiff(pathOk, readErr, backupErr, writeErr)

SpecDiff == InitDiff /\ [][NextDiff]_vars

\* An ErrorRecoveryManager after construction (recovery.ts 79-90) and the
\* operations on its store.
InitBackup ==
  /\ TurnIdle("review", 1)
  /\ RunnerIdle
  /\ ValidatorIdle
  /\ CompressIdle
  /\ StreamIdle
  /\ McpIdle
  /\ ExtIdle

NextBackup ==
  \/ \E filePath \in BackupFiles, size \in FileSizes : CreateBackup(filePath, size)
  \/ \E filePath \in BackupFiles : RollbackFile(filePath)
  \/ \E files \in {{"f"}, {"g"}, BackupFiles} : ClearBackups(files)
  \/ \E cut \in 1..MaxClock : CleanExpiredBackups(cut)

SpecBackup == InitBackup /\ [][NextBackup]_vars

\* The model calls write_file on the file "f", which exists or not; the
\* backup store is the one of a new ErrorRecoveryManager.
InitWrite ==
  /\ TurnIdle("review", 1)
  /\ RunnerIdle
  /\ ValidatorIdle
  /\ CompressIdle
  /\ StreamIdle
  /\ McpIdle
  /\ FrameIdle
  /\ ManagerIdle
  /\ McpToolIdle
  /\ ChildIdle
  /\ BackupIdle
  /\ LateIdle
  /\ adDiff = <<>>
  /\ adCreateBackup = TRUE
  /\ adPc = "idle"
  /\ adResult = NoResult
  /\ adPatched = <<>>
  /\ \E content \in FileContents \cup {Absent}, old \in FileContents \cup {Absent} :
       fsFiles = [p \in {"f", "f.backup"} |-> IF p = "f" THEN content ELSE old]
  /\ fsBefore = fsFiles
  /\ wfContent \in FileContents
  /\ wfCreateDirs \in BOOLEAN
  /\ wfPc = "call"
  /\ wfResult = NoResult

NextWrite ==
  \E pathOk, dirOk, writeErr \in BOOLEAN : WriteFile(pathOk, dirOk, writeErr)

SpecWrite == InitWrite /\ [][NextWrite]_vars

\* The parser on the tag form of every list of at most MaxCalls calls of two
\* tools, each parameter absent or one of three values.
ParamValues == {<<"8", "0">>, <<"true">>, <<"8", "<">>}

ParamMaps ==
  [{ParamNames[i] : i \in 1..Len(ParamNames)} -> {StringValue(v) : v \in ParamValues} \cup {Missing}]

RenderedCalls == {ToolCall(t, p) : t \in {"read_file", "write_file"}, p \in ParamMaps}

InitParse ==
  /\ TurnIdle("review", 1)
  /\ RunnerIdle
  /\ ValidatorIdle
  /\ CompressIdle
  /\ StreamIdle
  /\ McpIdle
  /\ FrameIdle
  /\ ManagerIdle
  /\ McpToolIdle
  /\ ChildIdle
  /\ DiffIdle
  /\ BackupIdle
  /\ InjectIdle
  /\ ExitIdle
  /\ PreviewIdle
  /\ BytesIdle
  /\ prCalls \in StringsOver(RenderedCalls, MaxCalls)
  /\ prText = <<>>
  /\ prParsed = <<>>
  /\ prPc = "calls"

NextParse == RenderResponse \/ ParseResponse

SpecParse == InitParse /\ [][NextParse]_vars

\* A session: the caller keeps one array of one or two messages and gives it
\* to every run; the registry holds zero to two tools.
CallerMessages ==
  {<<[role |-> r, content |-> <<"prompt">>]>> : r \in {"system", "user"}}
  \cup {<<[role |-> r, content |-> <<"prompt">>], [role |-> "user", content |-> <<"request">>]>> :
          r \in {"system", "user"}}

InitInject ==
  /\ TurnIdle("review", 1)
  /\ RunnerIdle
  /\ ValidatorIdle
  /\ CompressIdle
  /\ StreamIdle
  /\ McpIdle
  /\ oldExtIdle
  /\ ParseIdle
  /\ ExitIdle
  /\ PreviewIdle
  /\ BytesIdle
  /\ injHeap \in CallerMessages
  /\ injCaller = [i \in 1..Len(injHeap) |-> i]
  /\ injLocal = <<>>
  /\ injTools \in 0..2
  /\ injPc = "idle"
  /\ injRuns = 0

NextInject ==
  \/ \E memorySummary \in BOOLEAN : RunBegin(memorySummary)
  \/ RunPush
  \/ RunReturn

SpecInject == InitInject /\ [][NextInject]_vars

\* A process with up to MaxClients connected MCP clients: cleanup handlers
\* are registered at startup, tool calls are prompted for, and the session
\* ends by runCleanupAndExit or at the prompt.
InitExit ==
  /\ TurnIdle("review", 1)
  /\ RunnerIdle
  /\ ValidatorIdle
  /\ CompressIdle
  /\ StreamIdle
  /\ McpIdle
  /\ oldExtIdle
  /\ ParseIdle
  /\ InjectIdle
  /\ PreviewIdle
  /\ BytesIdle
  /\ cleanupHandlers = <<>>
  /\ exRan = <<>>
  /\ exClients \in 0..MaxClients
  /\ exPc = "startup"
  /\ exIndex = 0
  /\ exAnswer = "-"
  /\ exInvoked = FALSE

NextExit ==
  \/ \E handler \in CleanupActions : OnExit(handler)
  \/ RequestApproval
  \/ \E a \in Answers : ApprovalAnswer(a)
  \/ RunCleanupAndExit
  \/ \E throws \in BOOLEAN : CleanupStep(throws)

SpecExit == InitExit /\ [][NextExit]_vars

\* One write_file call in review mode whose path parameter is any string of
\* at most MaxPreviewPath characters.
InitPreview ==
  /\ TurnIdle("review", 1)
  /\ RunnerIdle
  /\ CompressIdle
  /\ StreamIdle
  /\ McpIdle
  /\ oldExtIdle
  /\ ParseIdle
  /\ InjectIdle
  /\ ExitIdle
  /\ BytesIdle
  /\ inputPath \in StringsOver(PathChars, MaxPreviewPath)
  /\ workspaceRoot \in WorkspaceRoots
  /\ vpc = "idle"
  /\ validation = NoValidation
  /\ pvPc = "request"
  /\ pvReads = {}
  /\ pvWrites = {}
  /\ pvPrompts = 0

NextPreview ==
  \/ RequestApprovalOfWrite
  \/ \E a \in Answers : AnswerOfWrite(a)
  \/ \E writeErr \in BOOLEAN : WriteFileHandler(writeErr)

SpecPreview == InitPreview /\ [][NextPreview]_vars

\* The spawned child when time passes: the timer fires, the handlers of the
\* events that happened run, and a child whose SIGTERM handler exits does
\* exit.  A child that ignores SIGTERM owes nothing.
TermReply == chTermSent /\ chOnTerm = "exit" /\ \E code \in 0..1 : ChildExits(code)

SpecChildFair ==
  /\ InitChild
  /\ [][NextChild]_vars
  /\ WF_vars(TimerFires)
  /\ WF_vars(OnClose)
  /\ WF_vars(OnError)
  /\ WF_vars(TermReply)

\* A server that writes up to MaxMessages framed messages, their bytes
\* reaching the data handler in pieces of any size.
Bodies == StringsOver(BodyChars, MaxBodyLen) \ {<<>>}

InitBytes ==
  /\ TurnIdle("review", 1)
  /\ RunnerIdle
  /\ ValidatorIdle
  /\ CompressIdle
  /\ StreamIdle
  /\ McpIdle
  /\ oldExtIdle
  /\ ParseIdle
  /\ InjectIdle
  /\ ExitIdle
  /\ PreviewIdle
  /\ byWire = <<>>
  /\ bySent = <<>>
  /\ byBuffer = <<>>
  /\ byHandled = <<>>

NextBytes ==
  \/ \E body \in Bodies : ServerWrites(body)
  \/ \E n \in 1..(MaxMessages * (5 + 2 * MaxBodyLen)) : DataEvent(n)

SpecBytes == InitBytes /\ [][NextBytes]_vars

\* A chat session in which /compress and custom commands are typed.
InitSlash ==
  /\ TurnIdle("review", 1)
  /\ RunnerIdle
  /\ ValidatorIdle
  /\ StreamIdle
  /\ McpIdle
  /\ ExtIdle
  /\ transcript \in Transcripts
  /\ effectiveMax = 10
  /\ currentTokens = 0
  /\ previous = <<>>
  /\ isCompressed = FALSE
  /\ cpc = 0

NextSlash == HandleCompress \/ CustomCommand

SpecSlash == InitSlash /\ [][NextSlash]_vars

\* The client when time passes: an armed 30-second timer that is not cleared
\* fires.  Responses carry one payload and the id of a request or the unused
\* id 0.
FairResponseMsgs == {m \in ResponseMsgs : m.payload = "p" /\ m.id <= MaxRequests}

NextMcpFair ==
  \/ Connect
  \/ \E method \in Methods : SendRequest(method)
  \/ \E msg \in FairResponseMsgs : HandleResponse(msg)
  \/ \E k \in 1..MaxRequests : Timeout(k)
  \/ Close

SpecMcpFair ==
  InitMcp /\ [][NextMcpFair]_vars /\ \A k \in 1..MaxRequests : WF_vars(Timeout(k))

(***************************************************************************)
(* Properties of ToolExecutor.execute.                                     *)
(***************************************************************************)
Registered(tc) == tc.tool \in DOMAIN Registry

Complete(tc) == Registered(tc) /\ Registry[tc.tool].required \subseteq tc.params

InCall == call # NoCall

\* C1: in dry-run mode no handler is ever invoked for any call, and a call
\* that names a registered tool with all its required parameters returns a
\* success result.
C1_DryRunNeverInvokesHandler ==
  safetyMode = "dry-run" =>
    /\ handlerInvoked = 0
    /\ epc # "handler"
    /\ (epc = "returned" /\ Complete(call)) => result.success

C1_Witness ==
  /\ safetyMode = "dry-run"
  /\ epc = "returned"
  /\ call.tool = "write_file"
  /\ Complete(call)
  /\ result.success

\* C2 as stated: in review mode the handler of an unsafe tool is invoked only
\* after a y/yes answer to a prompt shown for that call, and every other final
\* answer (any answer but d, which re-prompts) makes the call return a
\* Failure with the handler never invoked.
C2_AnyOtherAnswerReturnsFailure ==
  (safetyMode = "review" /\ InCall /\ Registered(call) /\ ~Registry[call.tool].safe) =>
    /\ handlerInvoked > 0 => (prompts >= 1 /\ lastAnswer \in {"y", "yes"})
    /\ lastAnswer \notin {"-", "d", "diff", "y", "yes"} =>
         (epc = "returned" /\ ~result.success /\ handlerInvoked = 0)

\* C2 amended: as C2, except that the final answer q (or quit) does not make
\* the call return: the process exits, and the handler is not invoked either.
C2_ApprovalGatesUnsafeHandler ==
  (safetyMode = "review" /\ InCall /\ Registered(call) /\ ~Registry[call.tool].safe) =>
    /\ handlerInvoked > 0 => (prompts >= 1 /\ lastAnswer \in {"y", "yes"})
    /\ lastAnswer \notin {"-", "d", "diff", "y", "yes", "q", "quit"} =>
         (epc = "returned" /\ ~result.success /\ handlerInvoked = 0)
    /\ lastAnswer \in {"q", "quit"} => (epc = "exited" /\ handlerInvoked = 0)

C2_Witness ==
  /\ safetyMode = "review"
  /\ call.tool = "write_file"
  /\ epc = "handler"
  /\ handlerInvoked = 1
  /\ prompts = 2
  /\ lastAnswer = "yes"

\* C3: in review mode and in auto-apply mode a tool whose definition has
\* safe = true is executed without any approval prompt being shown.
C3_SafeToolsSkipPrompt ==
  (safetyMode \in {"review", "auto-apply"} /\ InCall /\ Registered(call)
     /\ Registry[call.tool].safe) =>
    (prompts = 0 /\ epc # "approval")

\* C7: in every safety mode a call that names an unregistered tool or omits
\* a required parameter returns a Failure, with no approval prompt shown and
\* no handler invoked.
C7_InvalidCallFailsEarly ==
  (InCall /\ ~Complete(call)) =>
    /\ epc = "returned"
    /\ ~result.success
    /\ prompts = 0
    /\ handlerInvoked = 0

C7_Witness ==
  /\ safetyMode = "review"
  /\ epc = "returned"
  /\ call.tool = "write_file"
  /\ call.params = {"path"}
  /\ ~result.success

(***************************************************************************)
(* Properties of AgentOrchestrator.run.                                    *)
(***************************************************************************)
\* C8: as soon as three consecutive failures of one tool name have occurred
\* the turn has terminated: nothing more is executed, not even the calls
\* that follow the third failure in its batch.
C8_ThirdFailureEndsTurn == tripped => opc = "done"

\* C9: when the turn ends by the consecutive-failure stop, run() returns
\* success = false with an error that identifies the failing tool.
C9_FailureStopReportsError ==
  (opc = "done" /\ stopCause = "consecutive-failures") =>
    (~ret.success /\ lastFailedTool \in ret.errorTools)

\* C10: when a response has no tool calls the turn ends there normally:
\* run() returns success = true and the text of that response, at every
\* iteration number up to and including maxIterations.
C10_NoToolCallsIsSuccess ==
  (opc = "done" /\ stopCause = "no-tool-calls") =>
    (ret.success /\ ret.finalResponse = iterations)

Terminated == opc = "done" \/ opc = "exited"

C12_SequentialInOrder ==
  [][ /\ (call' # call /\ call' # NoCall) =>
           (epc = "idle" /\ call = NoCall /\ pending # <<>>
              /\ call' = Head(pending) /\ pending' = pending)
      /\ (opc = "batch" /\ pending' # pending) =>
           (epc = "returned" /\ call = Head(pending) /\ pending' = Tail(pending)
              /\ toolCallsExecuted' = toolCallsExecuted + 1)
      /\ (opc = "batch" /\ opc' # "batch" /\ opc' # "exited") => pending' = <<>>
    ]_vars

C12_Witness ==
  /\ opc = "batch"
  /\ hasFailure
  /\ epc = "handler"
  /\ call = [tool |-> "read_file", params |-> {"path"}]

Roles(msgs) == [i \in DOMAIN msgs |-> msgs[i].role]

Rounds(n) == [i \in 1..(2 * n) |-> IF i % 2 = 1 THEN "assistant" ELSE "user"]

\* C13: when a turn has ended, the transcript is the initial messages, then
\* an assistant message and a user tool-result message for every executed
\* batch, then an assistant message for a final response without tool calls.
C13_TranscriptShapeAtEnd ==
  opc = "done" =>
    /\ SubSeq(messages, 1, Len(InitialMessages)) = InitialMessages
    /\ Roles(messages) = Roles(InitialMessages) \o Rounds(batchesRun)
                           \o (IF llmResponses > batchesRun THEN <<"assistant">> ELSE <<>>)

\* A batch has been executed to its end and its results block is complete.
BatchEnded == opc # "batch" /\ toolResults # <<>>

HasTestOutcome(results) == \E i \in 1..Len(results) : results[i] = "auto-test"

\* C17: after a batch, a configured testCommand is run if and only if a
\* write_file or apply_diff call of the batch succeeded, whatever the other
\* calls did, and its outcome is then the last entry of the results block.
C17_TestRunIffWriteSucceeded ==
  (BatchEnded /\ testConfigured) =>
    /\ testRan <=> writeSucceeded
    /\ testRan => toolResults[Len(toolResults)] = "auto-test"
    /\ ~testRan => ~HasTestOutcome(toolResults)

\* C34: a turn in dry-run mode has no side effect outside the transcript: no
\* tool handler is invoked, and after a simulated write_file or apply_diff
\* the workspace testCommand is not run.
C34_DryRunRunsNoTest == safetyMode = "dry-run" => (handlerInvoked = 0 /\ ~testRan)

(***************************************************************************)
(* Properties of autoCompressMessages.                                     *)
(***************************************************************************)
\* The last six messages of a transcript (all of them when it has fewer).
LastSix(msgs) ==
  LET k == IF Len(msgs) < 6 THEN Len(msgs) ELSE 6
  IN [i \in 1..k |-> msgs[Len(msgs) - k + i]]

\* after is the compressed form of before: the first message, one system
\* summary message, the last six messages.
IsCompressedFormOf(after, before) ==
  /\ Len(after) = 2 + Len(LastSix(before))
  /\ after[1] = before[1]
  /\ after[2].role = "system"
  /\ after[2].content[1] = "compressed"
  /\ SubSeq(after, 3, Len(after)) = LastSix(before)

AtLeast80Percent(tokens, window) == tokens * 10 >= window * 8

\* C14: an application of auto-compression at which the token estimate is at
\* least 80% of the context window leaves the transcript in the compressed
\* form of the transcript it was given.
C14_CompressedAtEightyPercent ==
  (cpc > 0 /\ AtLeast80Percent(currentTokens, effectiveMax)) =>
    IsCompressedFormOf(transcript, previous)

\* C15: whenever an application rewrites the transcript, the result is the
\* first system message unchanged, one system-role summary message and the
\* last 6 messages of the previous transcript in order; the first message is
\* the system message before and after every application.
C15_CompressedFormKeepsSystemAndTail ==
  /\ transcript[1].role = "system"
  /\ cpc > 0 =>
       /\ previous[1] = transcript[1]
       /\ transcript # previous =>
            /\ IsCompressedFormOf(transcript, previous)
            /\ Len(transcript) = 8
            /\ \A i \in 1..6 : transcript[2 + i] = previous[Len(previous) - 6 + i]

C15_Witness ==
  /\ cpc = 1
  /\ Len(previous) = MaxTranscript
  /\ Len(transcript) = 8
  /\ transcript[2] = Msg("system", "compressed", MaxTranscript - 7)
  /\ transcript[8] = previous[MaxTranscript]

\* C16: an application of auto-compression to a transcript that
\* auto-compression wrote, no message having been added, leaves it unchanged,
\* whatever the token estimate.
C16_CompressionFixedPoint ==
  [][(isCompressed /\ cpc' # cpc) => transcript' = transcript]_vars

C16_Witness ==
  /\ cpc = 2
  /\ isCompressed
  /\ transcript = previous
  /\ Len(transcript) = 8
  /\ exceedsThreshold(currentTokens, effectiveMax)

\* C40: /compress never leaves the conversation with more messages than it
\* had before the command, whatever its length.
C40_CompressNeverGrows == [][HandleCompress => Len(transcript') <= Len(transcript)]_vars

(***************************************************************************)
(* Properties of streamResponse.                                           *)
(***************************************************************************)
\* The positions of a text that belong to an action block: from the first
\* character of an opening tag to the last character of the closing tag that
\* follows it (to the end of the text when none follows).
RECURSIVE ActionPositions(_, _)
ActionPositions(text, from) ==
  LET open == indexOfFrom(text, OpenTag, from)
      close == indexOfFrom(text, CloseTag, open + Len(OpenTag))
      end == IF close = -1 THEN Len(text) ELSE close + Len(CloseTag)
  IN IF open = -1 THEN {} ELSE (open..(end - 1)) \cup ActionPositions(text, end)

\* The positions outside every action block, in increasing order.
OutsidePositions(text) ==
  SelectSeq([i \in 1..Len(text) |-> i - 1],
            LAMBDA pos : pos \notin ActionPositions(text, 0))

\* C18: however the model output is cut into chunks, no character of an
\* action block, a prefix of its opening tag included, is written to the
\* user display.
C18_ActionBlockNeverDisplayed ==
  \A i \in 1..Len(displayedAt) : displayedAt[i] \notin ActionPositions(streamText, 0)

\* C19: when the stream has been consumed, the display holds every part of
\* the output outside the action blocks, the text after a closing tag
\* included, exactly once and in order, and the captured response is the
\* concatenation of all chunks.
C19_OutsideTextDisplayedOnce ==
  (spc = "returned" /\ ~silent) =>
    /\ displayedAt = OutsidePositions(streamText)
    /\ displayed = [i \in 1..Len(displayedAt) |-> streamText[displayedAt[i] + 1]]
    /\ fullResponse = streamText

(***************************************************************************)
(* Properties of McpClient.                                                *)
(***************************************************************************)
Sent(k) == k \in DOMAIN requests /\ requests[k].id # 0

\* C20: the ids of the requests a client sends are strictly increasing; a
\* response whose id is pending settles exactly the request sent with that
\* id, resolving it with the response's result or rejecting it with its
\* error, and touches no other request; a response whose id is not pending
\* changes nothing.
C20_IdsIncreaseAndResponsesMatch ==
  /\ [](\A i, j \in DOMAIN requests : (i < j /\ Sent(i) /\ Sent(j)) =>
           requests[i].id < requests[j].id)
  /\ [][handled' # handled =>
          IF lastMsg'.id \in DOMAIN pendingRequests
          THEN \E k \in DOMAIN requests :
                 /\ requests[k].id = lastMsg'.id
                 /\ requests[k].state = "pending"
                 /\ requests'[k].state = IF lastMsg'.error THEN "rejected" ELSE "resolved"
                 /\ requests'[k].by = "response"
                 /\ requests'[k].value = lastMsg'.payload
                 /\ \A other \in DOMAIN requests \ {k} : requests'[other] = requests[other]
                 /\ DOMAIN pendingRequests' = DOMAIN pendingRequests \ {lastMsg'.id}
          ELSE UNCHANGED <<mcpProcess, requestId, pendingRequests, timers, requests>>
       ]_vars

C20_Witness ==
  /\ Len(requests) = 2
  /\ requests[1].state = "pending"
  /\ requests[2].id = 2
  /\ requests[2].state = "resolved"
  /\ requests[2].by = "response"
  /\ requests[2].value = "q"
  /\ handled = 2

StillPending(k) == Sent(k) /\ requests[k].state = "pending"

\* C21: under every interleaving of responses, timer expiries and closes, a
\* request that was sent has resolve or reject called on it at most once;
\* once settled it was settled by its response, its timer or the close and
\* its id is absent from the pending table; while pending it is in the table
\* with its timer armed; and no request stays pending forever.
C21_SettledExactlyOnce ==
  /\ [](\A k \in DOMAIN requests : Sent(k) =>
           /\ requests[k].settles <= 1
           /\ requests[k].state # "pending" =>
                /\ requests[k].settles = 1
                /\ requests[k].by \in {"response", "timeout", "close"}
                /\ requests[k].id \notin DOMAIN pendingRequests
                /\ k \notin timers
           /\ requests[k].state = "pending" =>
                /\ requests[k].settles = 0
                /\ requests[k].id \in DOMAIN pendingRequests
                /\ pendingRequests[requests[k].id] = k
                /\ k \in timers)
  /\ \A k \in 1..MaxRequests : StillPending(k) ~> ~StillPending(k)

C21_Witness ==
  /\ Len(requests) = 2
  /\ requests[1].by = "timeout"
  /\ requests[1].settles = 1
  /\ requests[2].by = "close"
  /\ requests[2].settles = 1
  /\ pendingRequests = <<>>
  /\ handled = 1

(***************************************************************************)
(* Properties of the stdout framing of McpClient.                          *)
(***************************************************************************)
Delivered(id) == id \in DOMAIN replied /\ wire = <<>>

ResolvedByResponse(id) ==
  \E k \in DOMAIN requests :
    /\ requests[k].id = id
    /\ requests[k].state = "resolved"
    /\ requests[k].by = "response"

\* C22: once every byte of a response written in NDJSON framing has reached
\* the data handler, the request with the response's id is resolved by it,
\* as it is for a response written in Content-Length framing.
C22_NdjsonResponseResolves ==
  \A id \in DOMAIN replied :
    (Delivered(id) /\ replied[id] = "ndjson") => ResolvedByResponse(id)

(***************************************************************************)
(* Properties of the MCP manager.                                          *)
(***************************************************************************)
SpawnedServers == {mgrSpawned[j].server : j \in DOMAIN mgrSpawned}

\* The user typed the letter y, in either case, and nothing but white space
\* around it.
SaidYes(i) ==
  /\ i \in DOMAIN mgrAnswers
  /\ SelectSeq(mgrAnswers[i], LAMBDA c : c \notin Whitespace) \in {<<"y">>, <<"Y">>}

\* C23: a server whose launcher is outside the allow-list is spawned only
\* after the user said yes at the prompt of an interactive terminal; without
\* a terminal nobody is asked and such a server is skipped; no server is
\* spawned twice; and when initialize returns every configured server was
\* either spawned or skipped, the skipped ones being exactly those that are
\* outside the allow-list and were not confirmed.
C23_UnsafeLauncherNeedsConfirmation ==
  /\ \A i \in SpawnedServers :
       isCommandSafe(servers[i]) \/ (isTTY /\ SaidYes(i))
  /\ \A i \in DOMAIN mgrAnswers : isTTY /\ ~isCommandSafe(servers[i])
  /\ ~isTTY => mgrAnswers = <<>>
  /\ \A j, k \in DOMAIN mgrSpawned : j # k => mgrSpawned[j].server # mgrSpawned[k].server
  /\ SpawnedServers \cap mgrSkipped = {}
  /\ mgrPc = "done" =>
       /\ SpawnedServers \cup mgrSkipped = DOMAIN servers
       /\ mgrSkipped = {i \in DOMAIN servers :
                          ~isCommandSafe(servers[i]) /\ ~(isTTY /\ SaidYes(i))}

\* Without a terminal: an unlisted launcher first, skipped, and a listed one
\* after it, spawned.
C23_Witness ==
  /\ ~isTTY
  /\ mgrPc = "done"
  /\ Len(servers) = 2
  /\ ~isCommandSafe(servers[1])
  /\ mgrSkipped = {1}
  /\ SpawnedServers = {2}

(***************************************************************************)
(* Properties of the results of MCP tools.                                 *)
(***************************************************************************)
\* C24: the result an MCP tool handler returns is a success carrying an
\* output string or a failure whose error is a non-empty string; a
\* tools/call result with isError = true gives such a failure.
C24_FailureCarriesError ==
  mtPc # "calling" =>
    /\ mtResult.success => mtResult.output \notin {Undefined, ""}
    /\ ~mtResult.success => mtResult.error \notin {Undefined, ""}
    /\ (~mtReply.rejected /\ mtReply.hasContent /\ mtReply.isError) =>
         (~mtResult.success /\ mtResult.error \notin {Undefined, ""})

(***************************************************************************)
(* Properties of the promise of runCommandSafe.                            *)
(***************************************************************************)
\* C25: a resolved result has timedOut = true exactly when the child ended
\* because of the SIGTERM the runner's timer sent, and a child ended by the
\* timer never gives a rejected promise.
C25_TimedOutIffTimerEndedChild ==
  /\ rcPromise = "resolved" => (rcResult.timedOut <=> chCause = "timer")
  /\ chCause = "timer" => rcPromise # "rejected"

\* C38: once maxCommandDurationMs has elapsed for a spawned child, the
\* promise of runCommandSafe is eventually settled, whatever the child does
\* with the termination signal.
C38_SettlesAfterTimeout == (timeoutId = "fired") ~> (rcPromise # "pending")

(***************************************************************************)
(* Properties of apply_diff.                                               *)
(***************************************************************************)
\* C26: a diff that is one well-formed hunk header and nothing else, applied
\* to an existing file, gives the file's content back, whatever the content
\* and whatever start line the header states.
C26_HeaderOnlyDiffIsIdentity ==
  \A n \in 0..MaxStart :
    (adPc = "done" /\ adDiff = <<Hunk(n)>> /\ fsBefore["f"] # Absent
       /\ adResult.success)
      => (adPatched = fsBefore["f"] /\ fsFiles["f"] = fsBefore["f"])

\* C27: apply_diff with a diff that has no @@ marker returns a failure and
\* leaves every file as it was: the target is unchanged and no backup has
\* been written.
C27_NoMarkerNoEffect ==
  (adPc = "done" /\ ~includesHunkMarker(adDiff)) =>
    (~adResult.success /\ fsFiles = fsBefore)

(***************************************************************************)
(* Properties of the backup store.                                         *)
(***************************************************************************)
\* C28: whatever operations were applied to the store, the byte size of the
\* backups it holds is at most maxTotalBackupSize.
C28_StoreWithinByteBound == storedSize(backups) <= maxTotalBackupSize

Stored ==
  UNION {{[filePath |-> fp, timestamp |-> backups[fp][i].timestamp] :
            i \in 1..Len(backups[fp])} : fp \in BackupFiles}

\* C29: right after a createBackup that evicted backups, no backup left in
\* the store is older than a backup evicted for the byte bound, and no
\* backup left for the same file is older than the backup evicted for the
\* count bound.
C29_EvictionOldestFirst ==
  bkLast.op = "createBackup" =>
    /\ \A e \in bkLast.byBytes : \A s \in Stored : e.timestamp < s.timestamp
    /\ \A e \in bkLast.byCount : \A s \in Stored :
         s.filePath = e.filePath => e.timestamp < s.timestamp

\* C37: after any sequence of createBackup, rollbackFile, clearBackups,
\* eviction and expiry cleanup, currentBackupSize is the sum of the byte
\* sizes of the backups the store holds (0 for an empty store).
C37_AccountedSizeIsStoredSize == currentBackupSize = storedSize(backups)

(***************************************************************************)
(* Properties of write_file.                                               *)
(***************************************************************************)
\* C30: after a write_file call that succeeded on a file that existed, the
\* content the file had before the call is kept: in the file's .backup
\* sibling or in a backup record of the file in the store.
C30_OverwriteKeepsBackup ==
  (wfPc = "done" /\ wfResult.success /\ fsBefore["f"] # Absent) =>
    (fsFiles["f.backup"] = fsBefore["f"] \/ backups["f"] # <<>>)

(***************************************************************************)
(* Properties of the tool-call parser.                                     *)
(***************************************************************************)
\* The values of a list of calls.
ValuesOf(calls) ==
  {calls[i].params[ParamNames[k]] : i \in 1..Len(calls), k \in 1..Len(ParamNames)}

\* A string the parser decodes into a boolean or a number.
Decodable(val) == val # Missing /\ decodeValue(val.text).type # "string"

Occurrences(content, section) == Cardinality({i \in 1..Len(content) : content[i] = section})

\* C32: after any number of runs given the same system message, with tools
\* registered, that message holds the tool-definition section exactly once.
C32_InjectedOnce ==
  (injPc = "idle" /\ injRuns >= 1 /\ injTools > 0 /\ injHeap[injCaller[1]].role = "system")
    => Occurrences(injHeap[injCaller[1]].content, "tools") = 1

(***************************************************************************)
(* Properties of the end of the session.                                   *)
(***************************************************************************)
\* C33: when the user answers q at an approval prompt, the pending handler
\* is not invoked and every registered cleanup action has run, the MCP
\* clients being disconnected, when the process exits.
C33_QuitIsGraceful ==
  (exPc = "exited" /\ exAnswer \in {"q", "quit"})
    => /\ ~exInvoked
       /\ exRan = cleanupHandlers
       /\ (\E i \in 1..Len(cleanupHandlers) : cleanupHandlers[i] = "disconnectAll")
            => exClients = 0

(***************************************************************************)
(* Properties of the paths a tool call touches.                            *)
(***************************************************************************)
\* C35: every path read or written for a tool call, by the executor or by
\* the handler, is one validatePath accepts; the diff preview of write_file
\* reads no file outside the workspace.
C35_OnlyValidatedPaths ==
  /\ \A p \in pvReads : validatePathResult(p, workspaceRoot).valid
  /\ \A p \in pvWrites : validation.valid /\ p = validation.normalizedPath

(***************************************************************************)
(* Properties of the stdout framing on bytes.                              *)
(***************************************************************************)
\* C39: for every sequence of Content-Length-framed messages and every way
\* the bytes are split into data events, the bodies handled are bodies sent,
\* whole and in the order sent, and once all bytes have arrived every body
\* has been handled exactly once.
C39_EachBodyOnceInOrder ==
  /\ Len(byHandled) <= Len(bySent)
  /\ \A i \in 1..Len(byHandled) : byHandled[i] = bySent[i]
  /\ byWire = <<>> => byHandled = bySent

(***************************************************************************)
(* Properties of the command policy and the runner.                        *)
(***************************************************************************)
\* The forbidden metacharacters as the specification lists them.
ForbiddenTokens ==
  { <<";">>, <<Backtick>>, <<"$", "(">>, <<"$", "{">>, <<"|", "|">>, <<"&", "&">>,
    <<"\r">>, <<"\n">> }

HasForbiddenToken(value) ==
  \E t \in ForbiddenTokens :
    \E i \in 1..Len(value) :
      i + Len(t) - 1 <= Len(value) /\ \A k \in 1..Len(t) : value[i + k - 1] = t[k]

\* C4: when the command token or any single argument contains one of
\* ; backtick $( ${ || && CR LF, runCommandSafe refuses the call and spawns
\* no child process, on every platform.
C4_InjectionNeverSpawns ==
  (rpc # "idle" /\ (HasForbiddenToken(command)
                     \/ \E i \in 1..Len(args) : HasForbiddenToken(args[i]))) =>
    (rpc = "rejected" /\ spawned = 0)

C4_Witness ==
  /\ rpc = "rejected"
  /\ rejection = "argument"
  /\ platform = "win32"
  /\ command = <<"d">>
  /\ args = << <<"$", "{">> >>
  /\ spawned = 0

\* C36: when the runner interposes a shell, the command and the arguments
\* the filter accepted hold none of the policy's dangerous shell operators.
C36_ShellSeesNoOperator ==
  (rpc = "spawned" /\ useShell) =>
    /\ ~containsDangerousOperators(command)
    /\ \A i \in 1..Len(args) : ~containsDangerousOperators(args[i])

\* The normalized base name as the specification words it: the first
\* whitespace-delimited token, its tail after the last path separator,
\* without a .exe/.cmd/.bat/.sh/.ps1 extension, in lower case.
BaseNameOf(s) ==
  LET nonWs == {i \in 1..Len(s) : s[i] \notin Whitespace}
      first == IF nonWs = {} THEN 1 ELSE CHOOSE i \in nonWs : \A j \in nonWs : i <= j
      last == IF nonWs = {} THEN 0
              ELSE CHOOSE i \in first..Len(s) :
                     /\ \A j \in first..i : j \in nonWs
                     /\ (i = Len(s) \/ (i + 1) \notin nonWs)
      seps == {i \in first..last : s[i] \in {"/", "\\"}}
      start == IF seps = {} THEN first ELSE 1 + CHOOSE i \in seps : \A j \in seps : j <= i
      tail == toLowerCase(SubSeq(s, start, last))
      dotted == {<<".">> \o e : e \in Extensions}
      exts == {e \in dotted : Len(e) <= Len(tail)
                              /\ SubSeq(tail, Len(tail) - Len(e) + 1, Len(tail)) = e}
  IN IF exts = {} THEN tail
     ELSE SubSeq(tail, 1, Len(tail) - Len(CHOOSE e \in exts : TRUE))

EntryMatches(cmd, entry) ==
  \/ BaseNameOf(cmd) = BaseNameOf(entry)
  \/ cmd = entry
  \/ (Len(cmd) > Len(entry) /\ SubSeq(cmd, 1, Len(entry) + 1) = entry \o <<" ">>)

\* C5: isCommandAllowed(policy, cmd) is true exactly when cmd matches no
\* deny-list entry and, if the allow-list is non-empty, matches some
\* allow-list entry; a command on both lists is refused.
C5_AllowedIffNotDeniedAndListed ==
  rpc # "idle" =>
    /\ allowed =
         (/\ \A i \in 1..Len(policy.blockedCommands) :
               ~EntryMatches(command, policy.blockedCommands[i])
          /\ (policy.allowedCommands = <<>>
              \/ \E i \in 1..Len(policy.allowedCommands) :
                   EntryMatches(command, policy.allowedCommands[i])))
    /\ (\E i \in 1..Len(policy.blockedCommands), j \in 1..Len(policy.allowedCommands) :
          /\ EntryMatches(command, policy.blockedCommands[i])
          /\ EntryMatches(command, policy.allowedCommands[j])) => ~allowed

\* A command given as a path, on both lists through its base name, has been
\* refused.
C5_Witness ==
  /\ rpc = "rejected"
  /\ rejection = "policy"
  /\ ~allowed
  /\ command = <<"/", "S">>
  /\ policy.blockedCommands = << <<"s", " ", "h">> >>
  /\ policy.allowedCommands = << <<"/", "S", ".", "s", "h">> >>

(***************************************************************************)
(* Properties of validatePath.                                             *)
(***************************************************************************)
\* The directory names along a path.
Components(p) == SelectSeq(splitOn(p, "/", <<>>), LAMBDA seg : seg # <<>> /\ seg # <<".">>)

\* p is root itself or lies below it, component by component.
IsWithin(p, root) ==
  /\ \A i \in 1..Len(Components(p)) : Components(p)[i] # <<".", ".">>
  /\ Len(Components(root)) <= Len(Components(p))
  /\ SubSeq(Components(p), 1, Len(Components(root))) = Components(root)

\* C6: whenever validatePath succeeds on a non-empty input, the returned
\* absolute path is the workspace root or a component-wise descendant of it.
C6_AcceptedPathInsideWorkspace ==
  (vpc = "done" /\ validation.valid) =>
    (isAbsolute(validation.normalizedPath)
     /\ IsWithin(validation.normalizedPath, workspaceRoot))

====
